---- MODULE Spec2Model ----
(***************************************************************************)
(* A model of the story-mode generation pipeline: the KeyManager           *)
(* credential pool (src/utils/keyManager.ts) and the queue-based           *)
(* generation loop of handleGenerate (src/utils/textUtils.ts).             *)
(*                                                                         *)
(* JavaScript runs one task at a time: the code between two awaits is one  *)
(* atomic step.  Time (Date.now()) is the variable now, in milliseconds.   *)
(***************************************************************************)
EXTENDS Integers, Sequences, FiniteSets, TLC

(***************************************************************************)
(* Program constants.                                                      *)
(***************************************************************************)
MAX_RPM == 12
RESET_INTERVAL == 60000
JAIL_DURATION == 60000
CONCURRENCY_CAP == 3
SILENCE_FRAMES == 6000
SAMPLE_RATE == 24000

(***************************************************************************)
(* Bounds of the model.                                                    *)
(***************************************************************************)
MaxJobs == 3
MaxRateLimits == 2
Tick == 60000
TimeHorizon == 61000
PoolHorizon == 130000
MaxPoolCalls == 5
MaxClicks == 3

(***************************************************************************)
(* Values.                                                                 *)
(***************************************************************************)
Undefined == "undefined"
Null == "null"

\* an empty slot of orderedBuffers, and no final buffer yet
NullBuffer == [isNull |-> TRUE]

\* no analysis yet
NoAnalysis == [isNull |-> TRUE]

\* the decoded frame count of the audio answered for a segment: the
\* provider's audio grows with the text, here with the segment's index
frameCountOf(index) == index + 1

\* The key lists the constructor can produce (duplicates are not removed).
KeyPools ==
  { <<>>, <<"k1">>, <<"k1", "k2">>, <<"k1", "k1">>, <<"k1", "k2", "k3">> }

\* The key lists of the behaviours of the whole component.
RunPools == { <<>>, <<"k1">>, <<"k1", "k2">> }

VARIABLES
  \* KeyManager
  keys, currentIndex, jailedUntil, requestCounts, lastResetTime,
  \* Date.now()
  now,
  \* StoryMode component: isMountedRef.current, step, progress, the script
  \* length of analysis and the AudioContext
  isMounted, step, progress, analysis, audioContext,
  \* one handleGenerate run: where processQueue stands, its closure
  \* variables, the synthesis calls in flight and the processItem promises
  \* that returned at once and whose finally callback is still to run
  \* (their number, and the jobs they were given)
  pq, queue, activeWorkers, MAX_CONCURRENCY, orderedBuffers, completedCount,
  calls, pendingFinally, skipped, finalBuffer,
  \* observation of the last KeyManager call: its name and what it returned
  lastOp, ret,
  \* observation of a run: the jobs that failed with another error than a
  \* rate limit, whether a job completed after a job of a higher index, the
  \* number of rate-limit answers so far, the number of rate-limit answers
  \* to each job of the run
  dropped, outOfOrder, rateLimitHits, attemptCount,
  \* number of calls made by the pool-only specification, number of
  \* button clicks of the user
  poolCalls, clicks,
  \* what the last step showed: the entries its logger.log calls appended to
  \* the SessionLogger of the component (the durations that endTimer appends
  \* are left out), and the text of its alert
  logged, alerted,
  \* the helpers of the component called on their own: which call stands
  \* (fnPc), the argument and the value returned by optimizeScript
  fnPc, script, optimized,
  \* the AudioBuffer given to bufferToWav, the bytes it returns and what
  \* decoding those bytes gives
  wavBuffer, wav, decoded,
  \* the list given to concatenateAudioBuffers and the buffer it returns
  chunks, joined,
  \* performSmartCasting: the voice catalog, the characters of the analysis,
  \* the assignments it sets, and for each character the score it gave to
  \* each voice
  voices, characters, assignments, scoredVoices,
  \* the configuration given to the constructor of KeyManager
  \* (process.env.API_KEY), and the voice processItem takes for each segment
  \* of the optimized script
  envString, jobVoices

kmVars == <<keys, currentIndex, jailedUntil, requestCounts, lastResetTime>>

(***************************************************************************)
(* KeyManager.  The mutable fields travel as a record km; keys never       *)
(* changes after construction and now is fixed during one call.            *)
(***************************************************************************)
KM ==
  [ currentIndex |-> currentIndex, jailedUntil |-> jailedUntil,
    requestCounts |-> requestCounts, lastResetTime |-> lastResetTime ]

\* this.keys[index]: undefined when out of range
keyAt(index) ==
  IF index >= 0 /\ index < Len(keys) THEN keys[index + 1] ELSE Undefined

activeKeyCount == Len(keys)

\* this.requestCounts.get(key) || 0
countOf(km, key) ==
  IF key \in DOMAIN km.requestCounts THEN km.requestCounts[key] ELSE 0

\* this.requestCounts.set(key, n)
setCount(counts, key, n) ==
  [k \in DOMAIN counts \cup {key} |-> IF k = key THEN n ELSE counts[k]]

resetDue(km) == now - km.lastResetTime > RESET_INTERVAL

\* mutant: the window reset also lifts the jails
checkResetLiftsJails(km) ==
  IF resetDue(km)
    THEN [km EXCEPT
            !.requestCounts =
               [k \in DOMAIN km.requestCounts \cup {keys[i] : i \in 1..Len(keys)} |-> 0],
            !.jailedUntil = [k \in DOMAIN km.jailedUntil |-> now],
            !.lastResetTime = now]
    ELSE km

checkReset(km) ==
  IF resetDue(km)
    THEN [km EXCEPT
            !.requestCounts =
               [k \in DOMAIN km.requestCounts \cup {keys[i] : i \in 1..Len(keys)}
                  |-> IF k \in {keys[i] : i \in 1..Len(keys)} THEN 0
                      ELSE km.requestCounts[k]],
            !.lastResetTime = now]
    ELSE km

\* mutant: the jail still holds at the instant it expires
isJailedInclusive(km, key) ==
  key \in DOMAIN km.jailedUntil /\ km.jailedUntil[key] >= now

\* 1. Check Jail
isJailed(km, key) ==
  key \in DOMAIN km.jailedUntil /\ km.jailedUntil[key] > now

\* mutant: a key at the limit is still handed out
underLimitInclusive(km, key) == countOf(km, key) <= MAX_RPM

\* 2. Check Rate Limit
underLimit(km, key) == countOf(km, key) < MAX_RPM

\* mutant: the rate limit is not checked
isUsableJailOnly(km, index) ==
  LET km1 == checkReset(km)
      key == keyAt(index)
  IN  [km |-> km1, ok |-> ~isJailed(km1, key)]

\* isUsable(index): the pool after its checkReset, and the answer
isUsable(km, index) ==
  LET km1 == checkReset(km)
      key == keyAt(index)
  IN  [km |-> km1, ok |-> ~isJailed(km1, key) /\ underLimit(km1, key)]

incrementCount(km, key) ==
  [km EXCEPT !.requestCounts = setCount(km.requestCounts, key, countOf(km, key) + 1)]

\* mutant: the scan goes backward
scanPtrBackward(km, i) == (km.currentIndex + Len(keys) - i) % Len(keys)

\* (this.currentIndex + i) % this.keys.length
scanPtr(km, i) == (km.currentIndex + i) % Len(keys)

\* 2. Search others: the for loop of reserveKey from i on
RECURSIVE reserveOthers(_, _)
reserveOthers(km, i) ==
  IF i >= Len(keys)
    THEN [km |-> km, key |-> Null]
    ELSE LET ptr == scanPtr(km, i)
             u == isUsable(km, ptr)
         IN  IF u.ok
               THEN [km |-> incrementCount([u.km EXCEPT !.currentIndex = ptr], keyAt(ptr)),
                     key |-> keyAt(ptr)]
               ELSE reserveOthers(u.km, i + 1)

reserveKey(km) ==
  LET km1 == checkReset(km)
      u == isUsable(km1, km1.currentIndex)
  IN  IF u.ok
        THEN [km |-> incrementCount(u.km, keyAt(u.km.currentIndex)),
              key |-> keyAt(u.km.currentIndex)]
        ELSE reserveOthers(u.km, 1)

\* mutant: whatever reserveKey returns is taken for a key
isKeyAlways(key) == TRUE

\* a key is truthy: neither null nor undefined
isKey(key) == key \notin {Null, Undefined}

\* Legacy method: reserveKey, or the current key even if over the limit
getWorkingKey(km) ==
  LET r == reserveKey(km)
  IN  IF isKey(r.key) THEN r
      ELSE [km |-> r.km, key |-> keyAt(r.km.currentIndex)]

\* Find next usable: the for loop of jailCurrentKey from i on
RECURSIVE jailOthers(_, _)
jailOthers(km, i) ==
  IF i >= Len(keys)
    THEN [km EXCEPT !.currentIndex = (km.currentIndex + 1) % Len(keys)]
    ELSE LET ptr == scanPtr(km, i)
             u == isUsable(km, ptr)
         IN  IF u.ok
               THEN [u.km EXCEPT !.currentIndex = ptr]
               ELSE jailOthers(u.km, i + 1)

\* mutant: the duration is forgotten
jailExpiryNow(durationMs) == now

\* Date.now() + durationMs
jailExpiry(durationMs) == now + durationMs

jailCurrentKey(km, durationMs) ==
  IF Len(keys) = 0
    THEN km
    ELSE LET key == keyAt(km.currentIndex)
             km1 == [km EXCEPT
                       !.jailedUntil =
                          [k \in DOMAIN km.jailedUntil \cup {key} |->
                             IF k = key THEN jailExpiry(durationMs)
                             ELSE km.jailedUntil[k]]]
         IN  jailOthers(km1, 1)

\* keys.every((_, index) => !isUsable(index)), stopping at the first usable key
RECURSIVE everyUnusable(_, _)
everyUnusable(km, index) ==
  IF index >= Len(keys)
    THEN [km |-> km, all |-> TRUE]
    ELSE LET u == isUsable(km, index)
         IN  IF u.ok THEN [km |-> u.km, all |-> FALSE]
             ELSE everyUnusable(u.km, index + 1)

\* mutant: keys.some in place of keys.every
someKeyJailed(km) ==
  LET r == everyUnusable(km, 0)
  IN  [km |-> r.km, all |-> \E i \in 0..(Len(keys) - 1) : ~isUsable(r.km, i).ok]

allKeysJailed(km) == everyUnusable(km, 0)

\* the assignment of a call's resulting pool to the fields
SetKM(km) ==
  /\ currentIndex' = km.currentIndex
  /\ jailedUntil' = km.jailedUntil
  /\ requestCounts' = km.requestCounts
  /\ lastResetTime' = km.lastResetTime

(***************************************************************************)
(* Time.  The clock moves by Tick or to the next instant at which a jail   *)
(* expires or the window reset becomes due.                                *)
(***************************************************************************)
Instants ==
  {now + Tick, lastResetTime + RESET_INTERVAL + 1}
    \cup {jailedUntil[k] : k \in DOMAIN jailedUntil}

(***************************************************************************)
(* The pool alone: its public methods called in any order.                 *)
(***************************************************************************)
\* new KeyManager(envString): every counter 0, nothing jailed, pointer 0
constructed ==
  [ currentIndex |-> 0, jailedUntil |-> << >>,
    requestCounts |-> [k \in {keys[i] : i \in 1..Len(keys)} |-> 0],
    lastResetTime |-> now ]

\* the pool after n more calls of getWorkingKey (each one a reserveKey)
RECURSIVE afterReservations(_, _)
afterReservations(km, n) ==
  IF n = 0 THEN km
  ELSE CHOOSE r \in {afterReservations(next, n - 1) : next \in {reserveKey(km).km}} : TRUE

\* how many reservations were made in the current window before the
\* behaviours start
PriorReservations ==
  { 0, MAX_RPM - 1, MAX_RPM, 2 * MAX_RPM - 1, 2 * MAX_RPM, 3 * MAX_RPM - 1 }

compVars == <<isMounted, step, progress, analysis, audioContext>>

runVars ==
  <<pq, queue, activeWorkers, MAX_CONCURRENCY, orderedBuffers, completedCount,
    calls, pendingFinally, skipped, finalBuffer>>

obsVars == <<dropped, outOfOrder, rateLimitHits, attemptCount>>

fnVars ==
  <<fnPc, script, optimized, wavBuffer, wav, decoded, chunks, joined,
    voices, characters, assignments, scoredVoices, envString, jobVoices>>

uiVars == <<logged, alerted>>

vars ==
  <<kmVars, now, compVars, runVars, lastOp, ret, obsVars, poolCalls, clicks,
    uiVars, fnVars>>

\* the pool of the module-level keyManager when the behaviours start: a
\* key list and the reservations made so far
InitPool(pools, prior) ==
  /\ keys \in pools
  /\ now = 0
  /\ \E n \in prior :
       LET km == afterReservations(constructed, n)
       IN  /\ currentIndex = km.currentIndex
           /\ jailedUntil = km.jailedUntil
           /\ requestCounts = km.requestCounts
           /\ lastResetTime = km.lastResetTime
  /\ lastOp = "new"
  /\ ret = Null
  /\ poolCalls = 0
  /\ clicks = 0

\* the component after its first render and mount effect
InitComponent ==
  /\ isMounted = TRUE
  /\ step = "input"
  /\ progress = 0
  /\ analysis = NoAnalysis
  /\ audioContext = "none"
  /\ pq = "idle"
  /\ queue = << >>
  /\ activeWorkers = 0
  /\ MAX_CONCURRENCY = 0
  /\ orderedBuffers = << >>
  /\ completedCount = 0
  /\ calls = {}
  /\ pendingFinally = 0
  /\ skipped = {}
  /\ finalBuffer = NullBuffer
  /\ dropped = {}
  /\ outOfOrder = FALSE
  /\ rateLimitHits = 0
  /\ attemptCount = << >>
  /\ logged = << >>
  /\ alerted = Null

\* no helper is called on its own
InitHelpers ==
  /\ fnPc = "none"
  /\ script = << >>
  /\ optimized = << >>
  /\ wavBuffer = NullBuffer
  /\ wav = Null
  /\ decoded = NullBuffer
  /\ chunks = << >>
  /\ joined = NullBuffer
  /\ voices = << >>
  /\ characters = << >>
  /\ assignments = << >>
  /\ scoredVoices = << >>
  /\ envString = << >>
  /\ jobVoices = << >>

Init ==
  /\ \/ InitPool(RunPools, {0})
     \/ InitPool({<<"k1">>}, {MAX_RPM - 1})
  /\ InitComponent
  /\ InitHelpers


(***************************************************************************)
(* Audio buffers: channel count, length in sample frames, sample rate and, *)
(* in place of the samples, the pieces the buffer was built from: the      *)
(* decoded audio of a segment, a pause, or the frame of a blank buffer.    *)
(***************************************************************************)
createBuffer(numberOfChannels, length, sampleRate, content) ==
  [ numberOfChannels |-> numberOfChannels, length |-> length,
    sampleRate |-> sampleRate, content |-> content ]

\* decodeAudioData(rawBytes, audioContext, 24000) of segment index's answer
decodeAudioData(index, frameCount) ==
  createBuffer(1, frameCount, SAMPLE_RATE,
               <<[kind |-> "segment", src |-> index, frames |-> frameCount]>>)

\* audioContext.createBuffer(1, 24000 * 0.25, 24000)
pauseBuffer ==
  createBuffer(1, SILENCE_FRAMES, SAMPLE_RATE,
               <<[kind |-> "silence", frames |-> SILENCE_FRAMES]>>)

\* mutant: the length of the first buffer only
lengthOfFirst(buffers) == Head(buffers).length

RECURSIVE totalLength(_)
totalLength(buffers) ==
  IF buffers = << >> THEN 0 ELSE Head(buffers).length + totalLength(Tail(buffers))

RECURSIVE joinContent(_)
joinContent(buffers) ==
  IF buffers = << >> THEN << >>
  ELSE Head(buffers).content \o joinContent(Tail(buffers))

isValidBuffer(b) == b # NullBuffer /\ b.length > 0

\* mutant: no guard for the degenerate lists
concatenateUnguarded(buffers) ==
  LET valid == SelectSeq(buffers, isValidBuffer)
  IN  createBuffer(1, totalLength(valid), SAMPLE_RATE, joinContent(valid))

concatenateAudioBuffers(buffers) ==
  LET blank == createBuffer(1, 1, SAMPLE_RATE, <<[kind |-> "blank", frames |-> 1]>>)
      valid == SelectSeq(buffers, isValidBuffer)
  IN  IF Len(buffers) = 0 THEN blank
      ELSE IF Len(valid) = 0 THEN blank
      ELSE IF totalLength(valid) = 0 THEN blank
      ELSE createBuffer(valid[1].numberOfChannels, totalLength(valid),
                        valid[1].sampleRate, joinContent(valid))

(***************************************************************************)
(* handleGenerate: the helpers of the generation loop.                     *)
(***************************************************************************)
Min(a, b) == IF a <= b THEN a ELSE b

\* Math.min(3, keyManager.activeKeyCount * 2)
maxConcurrency(keyCount) == Min(CONCURRENCY_CAP, keyCount * 2)

\* mutant: the check lets one worker too many through
atCapacityLate(active, max) == active > max

\* activeWorkers >= MAX_CONCURRENCY
atCapacity(active, max) == active >= max

\* mutant: every entry of the queue is the first job
initialQueueOfFirst(n) == [i \in 1..n |-> 0]

\* optimizedScript.map((segment, index) => ({ segment, index }))
initialQueue(n) == [i \in 1..n |-> i - 1]

\* new Array(optimizedScript.length).fill(null)
emptyBuffers(n) == [i \in 1..n |-> NullBuffer]

\* mutant: the chunk goes to the first free slot, in order of completion
storeBufferNextFree(buffers, index, combined) ==
  LET free == {i \in DOMAIN buffers : buffers[i] = NullBuffer}
      first == CHOOSE i \in free : \A j \in free : i <= j
  IN  [buffers EXCEPT ![first] = combined]

\* mutant: every chunk goes to the first slot
storeBufferFirst(buffers, index, combined) ==
  [buffers EXCEPT ![1] = combined]

\* orderedBuffers[index] = combined
storeBuffer(buffers, index, combined) ==
  [buffers EXCEPT ![index + 1] = combined]

\* mutant: queue.push(job), the job goes to the back
pushBack(q, job) == q \o <<job>>

\* queue.unshift(job)
unshift(q, job) == <<job>> \o q

\* orderedBuffers.filter(b => b !== null)
isFilled(b) == b # NullBuffer
\* mutant: the slots are not filtered
unfilteredBuffers(buffers) == buffers

validBuffers(buffers) == SelectSeq(buffers, isFilled)

\* err.status === 429 || err.message?.includes('429')
isRateLimit(response) == response = "rateLimit"

\* mutant: every failed job is re-queued
requeueAlways(q, job, response) == unshift(q, job)

\* the queue after the catch of processItem: the job is re-queued on a
\* rate limit and skipped otherwise
requeueOnFailure(q, job, response) ==
  IF isRateLimit(response) THEN unshift(q, job) ELSE q

\* Math.round((completedCount / optimizedScript.length) * 100)
percent(done, total) == (200 * done + total) \div (2 * total)

\* React drops the state updates of an unmounted component
setState(old, new) == IF isMounted THEN new ELSE old

\* the finally callbacks of the processItem promises that returned at once
\* run as soon as the running task reaches an await
afterMicrotasks(active) == active - pendingFinally

\* SessionLogger.log: the entry pushed, without its timestamp and data
addEntry(stage, level, message) ==
  [stage |-> stage, level |-> level, message |-> message]

\* a step that logs nothing and alerts nothing
NoReport ==
  /\ logged' = << >>
  /\ alerted' = Null

\* a task is running: no timer, answer or user event is served meanwhile
Busy == pq \in {"loop", "returned"}

(***************************************************************************)
(* The component's life and the analysis stage.                            *)
(***************************************************************************)
\* the cleanup of the mount effect
Unmount ==
  /\ ~Busy
  /\ isMounted
  /\ isMounted' = FALSE
  /\ audioContext' = IF audioContext = "open" THEN "closed" ELSE audioContext
  /\ lastOp' = "none"
  /\ NoReport
  /\ ret' = Null
  /\ UNCHANGED <<fnVars, kmVars, now, step, progress, analysis, runVars, obsVars, poolCalls, clicks>>

Advance ==
  /\ ~Busy
  /\ \E t \in Instants :
       /\ t > now
       /\ t <= TimeHorizon
       /\ now' = t
  /\ lastOp' = "none"
  /\ NoReport
  /\ ret' = Null
  /\ UNCHANGED <<fnVars, kmVars, compVars, runVars, obsVars, poolCalls, clicks>>

\* the button of the input stage: getWorkingKey, then the analysis call
HandleAnalyze ==
  /\ ~Busy
  /\ isMounted
  /\ step = "input"
  /\ step' = "analyzing"
  /\ LET r == getWorkingKey(KM)
     IN  /\ SetKM(r.km)
         /\ ret' = r.key
  /\ lastOp' = "getWorkingKey"
  /\ logged' = <<addEntry("ANALYSIS", "INFO", "Starting text analysis")>>
  /\ alerted' = Null
  /\ clicks < MaxClicks
  /\ clicks' = clicks + 1
  /\ UNCHANGED <<fnVars, keys, now, isMounted, progress, analysis, audioContext, runVars,
                 obsVars, poolCalls>>

\* the analysis call answers with a script of n optimized segments
AnalyzeDone ==
  /\ ~Busy
  /\ step = "analyzing"
  /\ \E n \in 0..MaxJobs : analysis' = setState(analysis, [script |-> n])
  /\ step' = setState(step, "casting")
  /\ lastOp' = "none"
  /\ logged' = <<addEntry("ANALYSIS", "INFO", "Analysis result parsed")>>
  /\ alerted' = Null
  /\ ret' = Null
  /\ UNCHANGED <<fnVars, kmVars, now, isMounted, progress, audioContext, runVars, obsVars, poolCalls, clicks>>

\* the analysis call fails or its answer does not parse
AnalyzeFail ==
  /\ ~Busy
  /\ step = "analyzing"
  /\ step' = setState(step, "input")
  /\ lastOp' = "none"
  /\ logged' = <<addEntry("ANALYSIS", "ERROR", "Analysis failed")>>
  /\ alerted' = "Failed to analyze text. Please try again."
  /\ ret' = Null
  /\ UNCHANGED <<fnVars, kmVars, now, isMounted, progress, analysis, audioContext, runVars,
                 obsVars, poolCalls, clicks>>

\* mutant: the button leads to the input stage
AdjustVoicesToInput ==
  /\ ~Busy
  /\ isMounted
  /\ step = "complete"
  /\ step' = "input"
  /\ clicks < MaxClicks
  /\ clicks' = clicks + 1
  /\ lastOp' = "none"
  /\ ret' = Null
  /\ NoReport
  /\ UNCHANGED <<fnVars, kmVars, now, isMounted, progress, analysis, audioContext,
                 runVars, obsVars, poolCalls>>

\* the button Adjust Voices of the complete stage
AdjustVoices ==
  /\ ~Busy
  /\ isMounted
  /\ step = "complete"
  /\ step' = "casting"
  /\ clicks < MaxClicks
  /\ clicks' = clicks + 1
  /\ lastOp' = "none"
  /\ ret' = Null
  /\ NoReport
  /\ UNCHANGED <<fnVars, kmVars, now, isMounted, progress, analysis, audioContext,
                 runVars, obsVars, poolCalls>>

(***************************************************************************)
(* handleGenerate.                                                         *)
(***************************************************************************)
\* from the new AudioContext to the call of processQueue, whose first
\* statement returns when the component is unmounted
StartRun ==
  /\ audioContext' = "open"
  /\ queue' = initialQueue(analysis.script)
  /\ orderedBuffers' = emptyBuffers(analysis.script)
  /\ completedCount' = 0
  /\ activeWorkers' = 0
  /\ MAX_CONCURRENCY' = maxConcurrency(activeKeyCount)
  /\ pq' = IF isMounted THEN "loop" ELSE "returned"
  /\ calls' = {}
  /\ pendingFinally' = 0
  /\ skipped' = {}
  /\ finalBuffer' = NullBuffer
  /\ dropped' = {}
  /\ outOfOrder' = FALSE
  /\ attemptCount' = [i \in 1..analysis.script |-> 0]

\* the button of the casting stage
HandleGenerate ==
  /\ ~Busy
  /\ pq = "idle"
  /\ isMounted
  /\ step = "casting"
  /\ analysis # NoAnalysis
  /\ step' = "generating"
  /\ progress' = 0
  /\ lastOp' = "none"
  /\ NoReport
  /\ ret' = Null
  /\ IF audioContext = "open"
       THEN \* await audioContextRef.current.close()
            /\ pq' = "closing"
            /\ UNCHANGED <<audioContext, queue, activeWorkers, MAX_CONCURRENCY,
                           orderedBuffers, completedCount, calls, pendingFinally, skipped,
                           finalBuffer, dropped, outOfOrder, attemptCount>>
       ELSE StartRun
  /\ clicks < MaxClicks
  /\ clicks' = clicks + 1
  /\ UNCHANGED <<fnVars, kmVars, now, isMounted, analysis, rateLimitHits, poolCalls>>

\* the previous AudioContext has closed
ContextClosed ==
  /\ pq = "closing"
  /\ StartRun
  /\ lastOp' = "none"
  /\ NoReport
  /\ ret' = Null
  /\ UNCHANGED <<fnVars, kmVars, now, isMounted, step, progress, analysis, rateLimitHits, poolCalls, clicks>>

\* while (queue.length > 0) fails: wait for stragglers, or return
QueueEmpty ==
  /\ pq = "loop"
  /\ queue = << >>
  /\ IF activeWorkers > 0
       THEN /\ pq' = "delay500"
            /\ activeWorkers' = afterMicrotasks(activeWorkers)
            /\ pendingFinally' = 0
            /\ skipped' = {}
       ELSE /\ pq' = "returned"
            /\ UNCHANGED <<activeWorkers, pendingFinally, skipped>>
  /\ lastOp' = "none"
  /\ NoReport
  /\ ret' = Null
  /\ UNCHANGED <<fnVars, kmVars, now, compVars, queue, MAX_CONCURRENCY, orderedBuffers,
                 completedCount, calls, finalBuffer, obsVars, poolCalls, clicks>>

\* 1. Check if we can start a new worker: await delay(200)
AtCapacity ==
  /\ pq = "loop"
  /\ queue # << >>
  /\ atCapacity(activeWorkers, MAX_CONCURRENCY)
  /\ pq' = "delay200"
  /\ activeWorkers' = afterMicrotasks(activeWorkers)
  /\ pendingFinally' = 0
  /\ skipped' = {}
  /\ lastOp' = "none"
  /\ NoReport
  /\ ret' = Null
  /\ UNCHANGED <<fnVars, kmVars, now, compVars, queue, MAX_CONCURRENCY, orderedBuffers,
                 completedCount, calls, finalBuffer, obsVars, poolCalls, clicks>>

\* 2. Try to reserve a key: none, await delay(2000)
NoKey ==
  /\ pq = "loop"
  /\ queue # << >>
  /\ ~atCapacity(activeWorkers, MAX_CONCURRENCY)
  /\ LET r == reserveKey(KM)
     IN  /\ ~isKey(r.key)
         /\ SetKM(r.km)
         /\ ret' = r.key
  /\ pq' = "delay2000"
  /\ activeWorkers' = afterMicrotasks(activeWorkers)
  /\ pendingFinally' = 0
  /\ skipped' = {}
  /\ lastOp' = "reserveKey"
  /\ NoReport
  /\ UNCHANGED <<fnVars, keys, now, compVars, queue, MAX_CONCURRENCY, orderedBuffers,
                 completedCount, calls, finalBuffer, obsVars, poolCalls, clicks>>

\* mutant: processItem makes its call whether the component is mounted or not
DispatchUnmounted ==
  /\ pq = "loop"
  /\ queue # << >>
  /\ ~atCapacity(activeWorkers, MAX_CONCURRENCY)
  /\ LET r == reserveKey(KM)
     IN  /\ isKey(r.key)
         /\ SetKM(r.km)
         /\ ret' = r.key
         /\ calls' = calls \cup {[index |-> Head(queue), apiKey |-> r.key]}
         /\ UNCHANGED <<pendingFinally, skipped>>
  /\ queue' = Tail(queue)
  /\ activeWorkers' = activeWorkers + 1
  /\ lastOp' = "reserveKey"
  /\ NoReport
  /\ UNCHANGED <<fnVars, keys, now, compVars, pq, MAX_CONCURRENCY, orderedBuffers,
                 completedCount, finalBuffer, obsVars, poolCalls, clicks>>

\* 3. Take job: queue.shift(), activeWorkers++, processItem(job, key) up to
\* its await of the synthesis call
Dispatch ==
  /\ pq = "loop"
  /\ queue # << >>
  /\ ~atCapacity(activeWorkers, MAX_CONCURRENCY)
  /\ LET r == reserveKey(KM)
     IN  /\ isKey(r.key)
         /\ SetKM(r.km)
         /\ ret' = r.key
         /\ IF isMounted
              THEN /\ calls' = calls \cup {[index |-> Head(queue), apiKey |-> r.key]}
                   /\ UNCHANGED <<pendingFinally, skipped>>
              ELSE /\ pendingFinally' = pendingFinally + 1
                   /\ skipped' = skipped \cup {Head(queue)}
                   /\ UNCHANGED calls
  /\ queue' = Tail(queue)
  /\ activeWorkers' = activeWorkers + 1
  /\ lastOp' = "reserveKey"
  /\ NoReport
  /\ UNCHANGED <<fnVars, keys, now, compVars, pq, MAX_CONCURRENCY, orderedBuffers,
                 completedCount, finalBuffer, obsVars, poolCalls, clicks>>

\* a delay of processQueue is over
Wake ==
  /\ \/ /\ pq \in {"delay200", "delay2000"}
        /\ pq' = "loop"
     \/ /\ pq = "delay500"
        /\ activeWorkers = 0
        /\ pq' = "returned"
  /\ lastOp' = "none"
  /\ NoReport
  /\ ret' = Null
  /\ UNCHANGED <<fnVars, kmVars, now, compVars, queue, activeWorkers, MAX_CONCURRENCY,
                 orderedBuffers, completedCount, calls, pendingFinally, skipped, finalBuffer,
                 obsVars, poolCalls, clicks>>

\* the synthesis call of a job answers with audio: decode, add the pause,
\* store, count; then the finally callback
SettleAudio ==
  /\ ~Busy
  /\ \E c \in calls :
       LET buffer == decodeAudioData(c.index, frameCountOf(c.index))
           combined == concatenateAudioBuffers(<<buffer, pauseBuffer>>)
       IN  /\ orderedBuffers' = storeBuffer(orderedBuffers, c.index, combined)
           /\ completedCount' = completedCount + 1
           /\ progress' = setState(progress, percent(completedCount + 1, Len(orderedBuffers)))
           /\ outOfOrder' =
                (outOfOrder \/ \E j \in DOMAIN orderedBuffers :
                                 j - 1 > c.index /\ isFilled(orderedBuffers[j]))
           /\ calls' = calls \ {c}
  /\ NoReport
  /\ activeWorkers' = activeWorkers - 1
  /\ lastOp' = "none"
  /\ ret' = Null
  /\ UNCHANGED <<fnVars, kmVars, now, isMounted, step, analysis, audioContext, pq, queue,
                 MAX_CONCURRENCY, pendingFinally, skipped, finalBuffer, dropped,
                 rateLimitHits, attemptCount, poolCalls, clicks>>

\* the call fails with a 429: jail the current key, re-queue the job
SettleRateLimit ==
  /\ ~Busy
  /\ rateLimitHits < MaxRateLimits
  /\ \E c \in calls :
       /\ isRateLimit("rateLimit")
       /\ SetKM(jailCurrentKey(KM, JAIL_DURATION))
       /\ queue' = requeueOnFailure(queue, c.index, "rateLimit")
       /\ attemptCount' = [attemptCount EXCEPT ![c.index + 1] = @ + 1]
       /\ calls' = calls \ {c}
  /\ rateLimitHits' = rateLimitHits + 1
  /\ activeWorkers' = activeWorkers - 1
  /\ lastOp' = "jailCurrentKey"
  /\ logged' = <<addEntry("GENERATION", "WARN", "429 Hit on key ending ...")>>
  /\ alerted' = Null
  /\ ret' = Null
  /\ UNCHANGED <<fnVars, keys, now, compVars, pq, MAX_CONCURRENCY, orderedBuffers,
                 completedCount, pendingFinally, skipped, finalBuffer, dropped,
                 outOfOrder, poolCalls, clicks>>

\* the call fails otherwise, or answers without audio data: skip the job
SettleError ==
  /\ ~Busy
  /\ \E c \in calls, response \in {"empty", "error"} :
       /\ ~isRateLimit(response)
       /\ queue' = requeueOnFailure(queue, c.index, response)
       /\ dropped' = dropped \cup {c.index}
       /\ calls' = calls \ {c}
  \* console.error(`Failed segment ${index}`, err)
  /\ NoReport
  /\ activeWorkers' = activeWorkers - 1
  /\ lastOp' = "none"
  /\ ret' = Null
  /\ UNCHANGED <<fnVars, kmVars, now, compVars, pq, MAX_CONCURRENCY, orderedBuffers,
                 completedCount, pendingFinally, skipped, finalBuffer, outOfOrder,
                 rateLimitHits, attemptCount, poolCalls, clicks>>

\* after await processQueue(): return when unmounted, fail without audio,
\* else stitch the final track
FinishRun ==
  /\ pq = "returned"
  /\ pq' = "idle"
  /\ IF ~isMounted
       THEN /\ UNCHANGED <<step, finalBuffer>>
            /\ NoReport
       ELSE IF Len(validBuffers(orderedBuffers)) = 0
         THEN \* throw new Error("No audio generated"), caught at the end
              /\ step' = "casting"
              /\ UNCHANGED finalBuffer
              /\ logged' = << >>
              /\ alerted' = "Generation failed: No audio generated"
         ELSE /\ finalBuffer' = concatenateAudioBuffers(validBuffers(orderedBuffers))
              /\ step' = "complete"
              /\ logged' = <<addEntry("COMPLETION", "METRIC", "Generation Summary")>>
              /\ alerted' = Null
  /\ lastOp' = "none"
  /\ ret' = Null
  /\ UNCHANGED <<fnVars, kmVars, now, isMounted, progress, analysis, audioContext, queue,
                 activeWorkers, MAX_CONCURRENCY, orderedBuffers, completedCount,
                 calls, pendingFinally, skipped, obsVars, poolCalls, clicks>>

Next ==
  \/ Unmount
  \/ Advance
  \/ HandleAnalyze
  \/ AnalyzeDone
  \/ AnalyzeFail
  \/ AdjustVoices
  \/ HandleGenerate
  \/ ContextClosed
  \/ QueueEmpty
  \/ AtCapacity
  \/ NoKey
  \/ Dispatch
  \/ Wake
  \/ SettleAudio
  \/ SettleRateLimit
  \/ SettleError
  \/ FinishRun

Spec == Init /\ [][Next]_vars

(***************************************************************************)
(* The pool alone: its public methods called in any order.                 *)
(***************************************************************************)
PoolReserveKey ==
  /\ poolCalls < MaxPoolCalls
  /\ LET r == reserveKey(KM)
     IN  /\ SetKM(r.km)
         /\ ret' = r.key
  /\ lastOp' = "reserveKey"
  /\ poolCalls' = poolCalls + 1
  /\ UNCHANGED <<fnVars, uiVars, keys, now, compVars, runVars, obsVars, clicks>>

\* mutant: the fallback of getWorkingKey counts as a request
PoolGetWorkingKeyCounted ==
  /\ poolCalls < MaxPoolCalls
  /\ LET r == getWorkingKey(KM)
     IN  /\ SetKM(IF isKey(reserveKey(KM).key) \/ ~isKey(r.key) THEN r.km
                  ELSE incrementCount(r.km, r.key))
         /\ ret' = r.key
  /\ lastOp' = "getWorkingKey"
  /\ poolCalls' = poolCalls + 1
  /\ UNCHANGED <<fnVars, uiVars, keys, now, compVars, runVars, obsVars, clicks>>

PoolGetWorkingKey ==
  /\ poolCalls < MaxPoolCalls
  /\ LET r == getWorkingKey(KM)
     IN  /\ SetKM(r.km)
         /\ ret' = r.key
  /\ lastOp' = "getWorkingKey"
  /\ poolCalls' = poolCalls + 1
  /\ UNCHANGED <<fnVars, uiVars, keys, now, compVars, runVars, obsVars, clicks>>

PoolJailCurrentKey ==
  /\ poolCalls < MaxPoolCalls
  /\ SetKM(jailCurrentKey(KM, JAIL_DURATION))
  /\ lastOp' = "jailCurrentKey"
  /\ ret' = Null
  /\ poolCalls' = poolCalls + 1
  /\ UNCHANGED <<fnVars, uiVars, keys, now, compVars, runVars, obsVars, clicks>>

PoolAllKeysJailed ==
  /\ poolCalls < MaxPoolCalls
  /\ LET r == allKeysJailed(KM)
     IN  /\ SetKM(r.km)
         /\ ret' = IF r.all THEN "true" ELSE "false"
  /\ lastOp' = "allKeysJailed"
  /\ poolCalls' = poolCalls + 1
  /\ UNCHANGED <<fnVars, uiVars, keys, now, compVars, runVars, obsVars, clicks>>

PoolAdvance ==
  /\ \E t \in Instants :
       /\ t > now
       /\ t <= PoolHorizon
       /\ now' = t
  /\ lastOp' = "none"
  /\ ret' = Null
  /\ UNCHANGED <<fnVars, uiVars, kmVars, compVars, runVars, obsVars, poolCalls, clicks>>

PoolNext ==
  \/ PoolReserveKey
  \/ PoolGetWorkingKey
  \/ PoolJailCurrentKey
  \/ PoolAllKeysJailed
  \/ PoolAdvance

PoolInit == InitPool(KeyPools, PriorReservations) /\ InitComponent /\ InitHelpers

PoolSpec == PoolInit /\ [][PoolNext]_vars

(***************************************************************************)
(* The properties.                                                         *)
(***************************************************************************)
\* C1: at every moment of a generation run the number of jobs that are
\* active (dispatched and not yet settled) is at most MAX_CONCURRENCY, the
\* ceiling computed when the run started.
C1_AtMostCeilingActive ==
  /\ (Cardinality(calls) + pendingFinally) <= MAX_CONCURRENCY
  /\ activeWorkers <= MAX_CONCURRENCY

\* the scheduler waits at a ceiling of 2 with a job pending
C1_Witness ==
  /\ pq = "delay200"
  /\ MAX_CONCURRENCY = 2
  /\ Cardinality(calls) = 2
  /\ queue # << >>

\* assembly starts: processQueue has returned to a mounted handleGenerate
AssemblyStarts == pq = "returned" /\ isMounted

\* C2: when assembly starts, a job's output slot is empty only if one of
\* its attempts failed with an error other than a rate limit (a job whose
\* only failures were rate limits has been retried until its slot is filled).
C2_EmptySlotOnlyAfterError ==
  AssemblyStarts =>
    \A i \in DOMAIN orderedBuffers :
      orderedBuffers[i] = NullBuffer => (i - 1) \in dropped

\* C3: when processQueue returns and assembly starts, the pending queue
\* holds no job and no worker is active.
C3_ReturnsOnlyWhenDrained ==
  AssemblyStarts => (queue = << >> /\ activeWorkers = 0 /\ calls = {})

\* C4: when a job's call fails with a rate limit, the key that gets jailed
\* is the key that was reserved for that job, and no other key's jail
\* changes.
C4_JailsTheUsedKey ==
  [][\A c \in calls \ calls' :
       lastOp' = "jailCurrentKey" =>
         /\ c.apiKey \in DOMAIN jailedUntil'
         /\ jailedUntil'[c.apiKey] = now + JAIL_DURATION
         /\ \A k \in DOMAIN jailedUntil' \ {c.apiKey} :
              k \in DOMAIN jailedUntil /\ jailedUntil'[k] = jailedUntil[k]]_vars

\* C5: once the component is unmounted, the settlement of a call that was
\* in flight changes nothing: no output slot, not the completion counter
\* or the progress, not the pending queue, no key's jail, counter or the
\* pointer of the pool.
C5_LateSettlementIsNoOp ==
  [][(~isMounted /\ calls' # calls) =>
       UNCHANGED <<orderedBuffers, completedCount, progress, queue, jailedUntil,
                   currentIndex, requestCounts>>]_vars

\* the segment pieces of a track, in the order they are heard
SegmentsOf(buffer) ==
  SelectSeq(buffer.content, LAMBDA piece : piece.kind = "segment")

\* the indices of the filled slots
Filled == {i - 1 : i \in {j \in DOMAIN orderedBuffers : orderedBuffers[j] # NullBuffer}}

\* C6: the final track is the concatenation of the chunks of the successful
\* jobs in strictly ascending segment index, whatever the order in which
\* they completed; empty slots are skipped.
C6_TrackInSegmentOrder ==
  step = "complete" =>
    LET segs == SegmentsOf(finalBuffer)
    IN  /\ {segs[p].src : p \in DOMAIN segs} = Filled
        /\ \A p, q \in DOMAIN segs : p < q => segs[p].src < segs[q].src
        /\ Len(finalBuffer.content) = 2 * Len(segs)
        /\ \A p \in DOMAIN segs :
             /\ finalBuffer.content[2 * p - 1] = segs[p]
             /\ finalBuffer.content[2 * p].kind = "silence"
             /\ orderedBuffers[segs[p].src + 1].content
                  = <<finalBuffer.content[2 * p - 1], finalBuffer.content[2 * p]>>

\* a track of two chunks that completed out of order, with a slot skipped
C6_Witness ==
  /\ step = "complete"
  /\ outOfOrder
  /\ Cardinality(Filled) = 2
  /\ Len(orderedBuffers) = 3
  /\ orderedBuffers[2] = NullBuffer

\* C7: reserveKey never returns a key whose counter is at MAX_RPM: the
\* counter of the key returned was below MAX_RPM, or the call's window
\* reset had just set it to zero; no counter ever exceeds MAX_RPM.
C7_NeverReturnsKeyAtLimit ==
  [][(lastOp' = "reserveKey" /\ isKey(ret')) =>
       /\ requestCounts'[ret'] <= MAX_RPM
       /\ requestCounts[ret'] >= MAX_RPM =>
            /\ now - lastResetTime > RESET_INTERVAL
            /\ lastResetTime' = now
            /\ requestCounts'[ret'] = 1]_vars

\* reserveKey has passed over a key at the limit and returned another
C7_Witness ==
  /\ lastOp = "reserveKey"
  /\ isKey(ret)
  /\ \E k \in DOMAIN requestCounts :
       /\ k # ret
       /\ requestCounts[k] = MAX_RPM
       /\ ~(k \in DOMAIN jailedUntil /\ jailedUntil[k] > now)

\* C8: reserveKey never returns a jailed key before its jailedUntil, and
\* from jailedUntil on (that instant included) the key is eligible: when
\* reserveKey returns none, every key is jailed with jailedUntil > now or
\* has its counter at the limit.
C8_JailHoldsUntilExpiry ==
  lastOp = "reserveKey" =>
    /\ isKey(ret) => ~(ret \in DOMAIN jailedUntil /\ jailedUntil[ret] > now)
    /\ ~isKey(ret) =>
         \A i \in 1..Len(keys) :
           \/ keys[i] \in DOMAIN jailedUntil /\ jailedUntil[keys[i]] > now
           \/ requestCounts[keys[i]] >= MAX_RPM

\* reserveKey has returned a key at the very instant its jail expired
C8_Witness ==
  /\ lastOp = "reserveKey"
  /\ isKey(ret)
  /\ ret \in DOMAIN jailedUntil
  /\ jailedUntil[ret] = now

\* the counter of key k once the window reset of a call at now is done
CountInWindow(k) ==
  IF now - lastResetTime > RESET_INTERVAL THEN 0 ELSE requestCounts[k]

\* the key at index i (from 0) is usable at now
UsableAt(i) ==
  /\ ~(keys[i + 1] \in DOMAIN jailedUntil /\ jailedUntil[keys[i + 1]] > now)
  /\ CountInWindow(keys[i + 1]) < MAX_RPM

\* the distances from the pointer, going forward, at which a key is usable
UsableOffsets ==
  {d \in 0..(Len(keys) - 1) : UsableAt((currentIndex + d) % Len(keys))}

Least(S) == CHOOSE d \in S : \A e \in S : d <= e

\* C9: on a non-empty pool reserveKey returns the first usable key found
\* scanning forward cyclically from the pointer (the pointer's key first),
\* sets the pointer to its index and adds 1 to that key's counter alone; it
\* returns none, and moves nothing, exactly when no key is usable.
C9_ReserveFirstUsable ==
  [][(lastOp' = "reserveKey" /\ Len(keys) > 0) =>
       /\ jailedUntil' = jailedUntil
       /\ IF UsableOffsets = {}
            THEN /\ ret' = Null
                 /\ currentIndex' = currentIndex
                 /\ \A k \in DOMAIN requestCounts' :
                      requestCounts'[k] = CountInWindow(k)
            ELSE LET i == (currentIndex + Least(UsableOffsets)) % Len(keys)
                 IN  /\ ret' = keys[i + 1]
                     /\ currentIndex' = i
                     /\ \A k \in DOMAIN requestCounts' :
                          requestCounts'[k] =
                            CountInWindow(k) + (IF k = keys[i + 1] THEN 1 ELSE 0)]_vars

\* reserveKey has passed over two unusable keys of a pool of three and
\* returned the third
C9_Witness ==
  /\ lastOp = "reserveKey"
  /\ Len(keys) = 3
  /\ ret = keys[currentIndex + 1]
  /\ \A i \in 1..3 :
       i # currentIndex + 1 =>
         \/ requestCounts[keys[i]] >= MAX_RPM
         \/ keys[i] \in DOMAIN jailedUntil /\ jailedUntil[keys[i]] > now
  /\ \E i \in 1..3 : keys[i] \in DOMAIN jailedUntil /\ jailedUntil[keys[i]] > now

\* the key at index i (from 0) is usable once the call is over
UsableAfter(i) ==
  /\ ~(keys[i + 1] \in DOMAIN jailedUntil' /\ jailedUntil'[keys[i + 1]] > now)
  /\ requestCounts'[keys[i + 1]] < MAX_RPM

\* the distances from the pointer, from the next index on, at which a key
\* is usable once the current key is jailed
OtherOffsets ==
  {d \in 1..(Len(keys) - 1) : UsableAfter((currentIndex + d) % Len(keys))}

\* C10: jailCurrentKey makes the pointer's key unusable until
\* now + durationMs and touches no other key's jail; then the pointer moves
\* to the first usable key found scanning forward cyclically from the next
\* index, or to (pointer + 1) mod the pool size if there is none; on an
\* empty pool it does nothing.
C10_JailAndAdvance ==
  [][lastOp' = "jailCurrentKey" =>
       IF Len(keys) = 0
         THEN UNCHANGED kmVars
         ELSE /\ DOMAIN jailedUntil' = DOMAIN jailedUntil \cup {keys[currentIndex + 1]}
              /\ \A k \in DOMAIN jailedUntil' :
                   jailedUntil'[k] =
                     IF k = keys[currentIndex + 1] THEN now + JAIL_DURATION
                     ELSE jailedUntil[k]
              /\ currentIndex' =
                   IF OtherOffsets # {}
                     THEN (currentIndex + Least(OtherOffsets)) % Len(keys)
                     ELSE (currentIndex + 1) % Len(keys)]_vars

\* jailCurrentKey has jailed a key of a pool of three, passed over the next
\* key, unusable, and set the pointer to the one after it
C10_Witness ==
  /\ lastOp = "jailCurrentKey"
  /\ Len(keys) = 3
  /\ \E j \in 0..2 :
       /\ keys[j + 1] \in DOMAIN jailedUntil
       /\ jailedUntil[keys[j + 1]] = now + JAIL_DURATION
       /\ requestCounts[keys[((j + 1) % 3) + 1]] >= MAX_RPM
       /\ currentIndex = (j + 2) % 3

\* the keys of the pool
PoolKeys == {keys[i] : i \in 1..Len(keys)}

\* the call has reset the window
WindowReset == lastResetTime' # lastResetTime

\* C11 (as the code has it): a window reset happens inside a call, only
\* when more than RESET_INTERVAL has passed since the last one; it sets
\* every key's counter to zero (the key reserved by that call then counts
\* 1), and no call changes a jail other than jailCurrentKey its target's:
\* a key jailed beyond now is not returned by the call that resets.
\* jailCurrentKey changes a counter only through such a reset, which its
\* scan for the next usable key performs on a pool of two keys or more;
\* otherwise it leaves every counter alone.
C11_ResetIndependentOfJail ==
  [][(lastOp' \in {"reserveKey", "jailCurrentKey", "allKeysJailed", "getWorkingKey"}) =>
       /\ WindowReset =>
            /\ now - lastResetTime > RESET_INTERVAL
            /\ lastResetTime' = now
            /\ \A k \in PoolKeys :
                 requestCounts'[k] =
                   IF lastOp' \in {"reserveKey", "getWorkingKey"} /\ isKey(ret') /\ k = ret'
                        /\ ~(\A i \in 1..Len(keys) : ~UsableAt(i - 1))
                     THEN 1 ELSE 0
       /\ \A k \in DOMAIN jailedUntil :
            \/ jailedUntil'[k] = jailedUntil[k]
            \/ lastOp' = "jailCurrentKey" /\ k \in (IF Len(keys) = 0 THEN {} ELSE {keys[currentIndex + 1]})
       /\ \A k \in DOMAIN jailedUntil :
            (jailedUntil[k] > now /\ lastOp' = "reserveKey") => ret' # k
       /\ lastOp' = "jailCurrentKey" =>
            \/ requestCounts' = requestCounts
            \/ /\ WindowReset
               /\ Len(keys) > 1
               /\ \A k \in PoolKeys : requestCounts'[k] = 0]_vars

\* jailCurrentKey has reset the window, and a key jailed earlier is still
\* jailed
C11_Witness ==
  /\ lastOp = "jailCurrentKey"
  /\ now > 0
  /\ lastResetTime = now
  /\ \A k \in PoolKeys : requestCounts[k] = 0
  /\ \E k \in DOMAIN jailedUntil :
       jailedUntil[k] > now /\ jailedUntil[k] # now + JAIL_DURATION

\* C11 (as stated): a window reset zeroes every counter and changes no
\* jail and not the pointer, and jailCurrentKey changes no request counter.
C11_SuspendKeepsCounters ==
  [][/\ LET r == checkReset(KM)
        IN  /\ r.jailedUntil = jailedUntil
            /\ r.currentIndex = currentIndex
            /\ resetDue(KM) => \A k \in PoolKeys : r.requestCounts[k] = 0
     /\ lastOp' = "jailCurrentKey" => requestCounts' = requestCounts]_vars

\* the pool as the call leaves it
KMAfter ==
  [ currentIndex |-> currentIndex', jailedUntil |-> jailedUntil',
    requestCounts |-> requestCounts', lastResetTime |-> lastResetTime' ]

\* C12: allKeysJailed returns true if and only if no key is usable at now
\* (every key is jailed with jailedUntil > now or has its counter of the
\* current window at MAX_RPM), and exactly when a reserveKey called right
\* after it would return no key.
C12_AllJailedIffNoneUsable ==
  [][lastOp' = "allKeysJailed" =>
       /\ (ret' = "true") <=> (\A i \in 0..(Len(keys) - 1) : ~UsableAt(i))
       /\ (ret' = "true") <=> ~isKey(reserveKey(KMAfter).key)
       /\ ret' \in {"true", "false"}]_vars

\* allKeysJailed has answered true on a pool of three keys, one of them
\* jailed and another, not jailed, at the limit
C12_Witness ==
  /\ lastOp = "allKeysJailed"
  /\ ret = "true"
  /\ Len(keys) = 3
  /\ \E k \in PoolKeys : k \in DOMAIN jailedUntil /\ jailedUntil[k] > now
  /\ \E k \in PoolKeys :
       /\ requestCounts[k] = MAX_RPM
       /\ ~(k \in DOMAIN jailedUntil /\ jailedUntil[k] > now)

\* the jobs in the pending queue and the jobs of the calls in flight
Pending == {queue[i] : i \in DOMAIN queue}
InFlight == {c.index : c \in calls}

\* C13: a job whose attempt failed with another error than a rate limit
\* (an error, or an answer without audio data) is dropped for good: it is
\* not in the pending queue again, is not attempted again and its slot
\* stays empty for the rest of the run; the step that drops it leaves the
\* queue, the other calls, the slots and the stage of the run as they are,
\* so the other jobs are still processed.
C13_DroppedForGood ==
  [][~(UNCHANGED <<dropped, queue, calls, orderedBuffers>>) =>
     /\ \A i \in dropped' :
          /\ i \notin Pending'
          /\ i \notin InFlight'
          /\ orderedBuffers'[i + 1] = NullBuffer
     /\ (dropped' # dropped /\ dropped \subseteq dropped') =>
          /\ UNCHANGED <<queue, orderedBuffers, completedCount, pq, step, kmVars>>
          /\ calls' \subseteq calls
          /\ Cardinality(calls') = Cardinality(calls) - 1]_vars

\* a run of three jobs at a ceiling of 2: the first two were dropped and
\* the third, dispatched after a drop, has filled its slot
C13_Witness ==
  /\ Len(orderedBuffers) = 3
  /\ MAX_CONCURRENCY = 2
  /\ dropped = {0, 1}
  /\ orderedBuffers[3] # NullBuffer

\* the step is the catch of processItem on a rate limit
RateLimitStep == rateLimitHits' # rateLimitHits

\* the step starts a run: the queue is built anew
RunStarts == pq \in {"idle", "closing"} /\ pq' \in {"loop", "returned"}

\* C14: on every rate-limit failure, however often the job has been
\* rate-limited before, the job is put at the front of the pending queue,
\* ahead of every job that was pending; and within a run the queue changes
\* only by taking its head or by such an insertion at its front, so the
\* job is dequeued before the jobs that were pending when it failed.
C14_RequeuedAtFront ==
  [][~(UNCHANGED <<queue, rateLimitHits>>) =>
     /\ RateLimitStep =>
          \E c \in calls \ calls' :
            /\ queue' = <<c.index>> \o queue
            /\ attemptCount'[c.index + 1] = attemptCount[c.index + 1] + 1
     /\ \/ queue' = queue
        \/ queue # << >> /\ queue' = Tail(queue)
        \/ queue' # << >> /\ Tail(queue') = queue /\ RateLimitStep
        \/ RunStarts]_vars

\* a job rate-limited for the second time is at the head of the queue,
\* ahead of a job that was pending
C14_Witness ==
  /\ lastOp = "jailCurrentKey"
  /\ Len(queue) >= 2
  /\ attemptCount[queue[1] + 1] = 2
  /\ attemptCount[queue[2] + 1] = 0

\* the jobs of the run
Jobs == {i - 1 : i \in DOMAIN orderedBuffers}

\* the jobs given to a worker and not yet settled
ActiveJobs == InFlight \cup skipped

\* the state of a job of the run: pending in the queue, active with a
\* worker, done once its slot is filled, dropped otherwise
JobState(i) ==
  IF i \in Pending THEN "pending"
  ELSE IF i \in ActiveJobs THEN "active"
  ELSE IF orderedBuffers[i + 1] # NullBuffer THEN "done"
  ELSE "dropped"

\* C15: every job of a run is in exactly one of pending, active, done and
\* dropped: it is in the queue at most once, at most one worker has it, and
\* it is not pending, active or done at once.  Within a run a job moves only
\* from pending to active, from active to done, from active to pending (and
\* then only on a rate-limit failure of that job) and from active to
\* dropped; done and dropped are final.
C15_JobStateMachine ==
  [][~(UNCHANGED <<queue, calls, skipped, orderedBuffers, dropped>>) =>
     /\ \A a, b \in DOMAIN queue' : queue'[a] = queue'[b] => a = b
     /\ \A c, d \in calls' : c.index = d.index => c = d
     /\ InFlight' \cap skipped' = {}
     /\ Pending' \cap ActiveJobs' = {}
     /\ \A i \in Jobs' :
          orderedBuffers'[i + 1] # NullBuffer =>
            i \notin Pending' \cup ActiveJobs' \cup dropped'
     /\ dropped' \cap (Pending' \cup ActiveJobs') = {}
     /\ Pending' \cup ActiveJobs' \cup dropped' \subseteq Jobs'
     /\ ~RunStarts =>
          \A i \in Jobs :
            LET from == JobState(i)
                to == JobState(i)'
            IN  \/ to = from
                \/ from = "pending" /\ to = "active"
                \/ from = "active" /\ to = "done"
                \/ from = "active" /\ to = "dropped"
                \/ /\ from = "active" /\ to = "pending"
                   /\ RateLimitStep
                   /\ attemptCount'[i + 1] = attemptCount[i + 1] + 1]_vars

\* of three jobs one is done, one was dropped and one, rate-limited, is
\* pending again
C15_Witness ==
  /\ Len(orderedBuffers) = 3
  /\ \E i, j, k \in Jobs :
       /\ JobState(i) = "done"
       /\ JobState(j) = "dropped" /\ j \in dropped
       /\ JobState(k) = "pending" /\ attemptCount[k + 1] = 1

\* the step takes a job from the queue
Dequeues == ~RunStarts /\ Len(queue') < Len(queue)

\* C16: a job leaves the queue only in a step in which reserveKey returned
\* a key, the job is the head of the queue, it alone leaves, and the worker
\* it is given holds that key; every reserveKey of the scheduler that
\* returns a key dispatches exactly one job.  When reserveKey returns no
\* key the scheduler takes, drops and fails no job, the number of unsettled
\* workers stays the same, and it waits for delay(2000) before it tries
\* again.
C16_DequeueOnlyWithKey ==
  [][~(UNCHANGED queue /\ lastOp' # "reserveKey") =>
     /\ Dequeues =>
          /\ lastOp' = "reserveKey"
          /\ ret' \notin {Null, Undefined}
          /\ queue' = Tail(queue)
          /\ activeWorkers' = activeWorkers + 1
          /\ IF isMounted
               THEN calls' = calls \cup {[index |-> Head(queue), apiKey |-> ret']}
               ELSE skipped' = skipped \cup {Head(queue)} /\ calls' = calls
     /\ (lastOp' = "reserveKey" /\ ret' \notin {Null, Undefined}) =>
          /\ Dequeues
          /\ Cardinality(ActiveJobs') = Cardinality(ActiveJobs) + 1
     /\ (lastOp' = "reserveKey" /\ ret' \in {Null, Undefined}) =>
          /\ UNCHANGED <<queue, calls, dropped, orderedBuffers, completedCount>>
          /\ activeWorkers' - pendingFinally' = activeWorkers - pendingFinally
          /\ pq = "loop"
          /\ pq' = "delay2000"]_vars

\* reserveKey has returned no key to the scheduler, which waits with jobs
\* pending and a call in flight
C16_Witness ==
  /\ pq = "delay2000"
  /\ lastOp = "reserveKey"
  /\ ret \in {Null, Undefined}
  /\ queue # << >>
  /\ calls # {}

\* C17: the ceiling the scheduler uses is min(3, 2 * n) for a pool of n
\* keys, n >= 0, and is at least 1, so always in 1..3.
C17_CeilingAtLeastOne ==
  (pq \notin {"idle", "closing"}) =>
    /\ MAX_CONCURRENCY = Min(CONCURRENCY_CAP, 2 * Len(keys))
    /\ MAX_CONCURRENCY \in 1..CONCURRENCY_CAP

\* the steps of processQueue and of handleGenerate around it: the event
\* loop runs a task that is ready
SchedulerStep ==
  ContextClosed \/ QueueEmpty \/ AtCapacity \/ NoKey \/ Dispatch \/ Wake \/ FinishRun

\* a synthesis call settles otherwise than with a rate limit
SettleStep == SettleAudio \/ SettleError

\* The component under fair scheduling: a ready task of the scheduler is
\* run, a call in flight settles (after finitely many rate limits, with
\* audio or an error) whenever the running task yields, and time advances.
LiveSpec ==
  /\ Spec
  /\ WF_vars(SchedulerStep)
  /\ SF_vars(SettleStep)
  /\ SF_vars(Advance)

\* C18: with at least one key in the pool, under fair scheduling, a run
\* that has started eventually terminates with every job done or dropped
\* (as far as the clock of the model reaches).
C18_RunTerminatesSettled ==
  [](((pq = "loop" /\ Len(keys) >= 1) =>
        <>((pq = "idle" /\ (\A i \in Jobs : JobState(i) \in {"done", "dropped"})) \/ (/\ pq # "idle" /\ \A t \in Instants : t <= now \/ t > TimeHorizon))))

\* the slots the step writes
Written == {i \in Jobs : ~RunStarts /\ orderedBuffers'[i + 1] # orderedBuffers[i + 1]}

\* C19: within a run a slot of orderedBuffers is written at most once (it
\* was empty before the write and is never written again), and only by the
\* settlement of a call of the job of that index, with the audio decoded
\* for that job; a step writes one slot at most, whatever the re-queues and
\* the calls in flight.
C19_SlotWrittenOnce ==
  [][~(UNCHANGED orderedBuffers) =>
     /\ Cardinality(Written) <= 1
     /\ \A i \in Written :
          /\ orderedBuffers[i + 1] = NullBuffer
          /\ \E c \in calls \ calls' : c.index = i
          /\ SegmentsOf(orderedBuffers'[i + 1]) =
               <<[kind |-> "segment", src |-> i, frames |-> frameCountOf(i)]>>
     /\ ~RunStarts => Len(orderedBuffers') = Len(orderedBuffers)]_vars

\* the slot of a job that had been rate-limited before is written while
\* another call is in flight
C19_Witness ==
  /\ calls # {}
  /\ \E i \in Jobs :
       /\ attemptCount[i + 1] >= 1
       /\ orderedBuffers[i + 1] # NullBuffer

\* the sum over the jobs of S of the decoded frame count of the job's audio
\* plus the frames of the pause
RECURSIVE FramesOf(_)
FramesOf(S) ==
  IF S = {} THEN 0
  ELSE LET i == CHOOSE j \in S : TRUE
       IN  frameCountOf(i) + SILENCE_FRAMES + FramesOf(S \ {i})

\* C20: the final track's length in sample frames is the sum, over the jobs
\* that succeeded, of the decoded frame count of the job's audio plus the
\* 6000 frames of the pause (0.25 s at 24 kHz), whatever the order of
\* completion; a dropped job adds nothing.  The track is mono at 24 kHz.
C20_TrackLength ==
  step = "complete" =>
    /\ finalBuffer.length = FramesOf(Filled)
    /\ finalBuffer.numberOfChannels = 1
    /\ finalBuffer.sampleRate = SAMPLE_RATE
    /\ SILENCE_FRAMES * 4 = SAMPLE_RATE

\* a track of the first and the third of three jobs, completed out of
\* order, the second dropped
C20_Witness ==
  /\ step = "complete"
  /\ outOfOrder
  /\ Filled = {0, 2}
  /\ dropped = {1}
  /\ finalBuffer.length = 2 * SILENCE_FRAMES + 4

(***************************************************************************)
(* optimizeScript.  A text is the sequence of its characters, a segment a  *)
(* record of a speaker and a text.                                         *)
(***************************************************************************)
MaxScript == 3
MAX_CHAR_LIMIT == 800

Repeat(ch, n) == [i \in 1..n |-> ch]

\* the scripts tried: segments of two speakers, with three one-letter texts
\* and two long ones
Scripts ==
  LET Texts == { Repeat("x", 1), Repeat("y", 1), Repeat("z", 1),
                 Repeat("x", MAX_CHAR_LIMIT \div 2),
                 Repeat("x", MAX_CHAR_LIMIT - 2) }
      Segments == [speaker : {"A", "B"}, text : Texts]
  IN  UNION { [1..n -> Segments] : n \in 0..MaxScript }

\* mutant: the texts glued without the space
mergeTextGlued(current, next) == current \o next

\* current.text += " " + next.text
mergeText(current, next) == current \o <<" ">> \o next

\* (current.text.length + next.text.length) < MAX_CHAR_LIMIT
underCharLimit(current, next) == Len(current) + Len(next) < MAX_CHAR_LIMIT

\* the for loop of optimizeScript from index i (0-based i is s[i + 1])
RECURSIVE optimizeLoop(_, _, _, _)
optimizeLoop(s, i, current, out) ==
  IF i >= Len(s) THEN Append(out, current)
  ELSE LET next == s[i + 1]
       IN  IF next.speaker = current.speaker /\ underCharLimit(current.text, next.text)
             THEN optimizeLoop(s, i + 1,
                               [current EXCEPT !.text = mergeText(@, next.text)], out)
             ELSE optimizeLoop(s, i + 1, next, Append(out, current))

optimizeScript(s) ==
  IF Len(s) = 0 THEN << >> ELSE optimizeLoop(s, 1, s[1], << >>)

InitOptimize ==
  /\ InitPool({<< >>}, {0})
  /\ InitComponent
  /\ fnPc = "optimizeScript"
  /\ script \in Scripts
  /\ optimized = << >>
  /\ wavBuffer = NullBuffer
  /\ wav = Null
  /\ decoded = NullBuffer
  /\ chunks = << >>
  /\ joined = NullBuffer
  /\ voices = << >>
  /\ characters = << >>
  /\ assignments = << >>
  /\ scoredVoices = << >>
  /\ envString = << >>
  /\ jobVoices = << >>

\* mutant: current is the segment of the script itself
aliased(index) == index

\* { ...segment }: a new object, which is no element of the script (0); the
\* argument is the index (from 1) of the segment copied
spread(index) == 0

\* what the array given to optimizeScript holds after the call: current is
\* a value and the element of the script it refers to (ref, 0 for none),
\* and current.text += ... writes to that element
scriptAfterOptimize(s) ==
  LET RECURSIVE loop(_, _, _, _)
      loop(arg, i, current, ref) ==
        IF i >= Len(arg) THEN arg
        ELSE LET next == arg[i + 1]
             IN  IF next.speaker = current.speaker
                      /\ underCharLimit(current.text, next.text)
                   THEN LET merged == [current EXCEPT !.text = mergeText(@, next.text)]
                        IN  loop(IF ref = 0 THEN arg ELSE [arg EXCEPT ![ref] = merged],
                                 i + 1, merged, ref)
                   ELSE loop(arg, i + 1, next, spread(i + 1))
  IN  IF Len(s) = 0 THEN s ELSE loop(s, 1, s[1], spread(1))

\* const optimizedScript = optimizeScript(analysis.script)
Optimize ==
  /\ fnPc = "optimizeScript"
  /\ optimized' = optimizeScript(script)
  /\ script' = scriptAfterOptimize(script)
  /\ fnPc' = "optimized"
  /\ UNCHANGED <<kmVars, now, compVars, runVars, lastOp, ret, obsVars, poolCalls,
                 clicks, uiVars, envString, jobVoices, wavBuffer, wav, decoded, chunks, joined,
                 voices, characters, assignments, scoredVoices>>

\* optimizeScript called with the script it returned
OptimizeAgain ==
  /\ fnPc = "optimized"
  /\ optimized' = optimizeScript(optimized)
  /\ script' = scriptAfterOptimize(optimized)
  /\ fnPc' = "optimizedAgain"
  /\ UNCHANGED <<kmVars, now, compVars, runVars, lastOp, ret, obsVars, poolCalls,
                 clicks, uiVars, envString, jobVoices, wavBuffer, wav, decoded, chunks, joined,
                 voices, characters, assignments, scoredVoices>>

OptimizeSpec ==
  /\ InitOptimize
  /\ [][Optimize \/ OptimizeAgain]_vars

\* the runs of consecutive input segments that a set of cut positions makes:
\* a cut at k separates s[k] from s[k + 1]
RunStartsAt(s, cuts) == {1} \cup {k + 1 : k \in cuts}
RunEnd(s, cuts, lo) ==
  IF \E k \in cuts : k >= lo THEN CHOOSE k \in cuts : k >= lo /\ \A j \in cuts : j >= lo => k <= j
  ELSE Len(s)

\* the texts of s[lo..hi] joined by single spaces
RECURSIVE JoinTexts(_, _, _)
JoinTexts(s, lo, hi) ==
  IF lo = hi THEN s[lo].text
  ELSE JoinTexts(s, lo, hi - 1) \o <<" ">> \o s[hi].text

\* out is the script s cut at cuts: its k-th segment is the k-th run, with
\* the run's one speaker and the run's texts joined by single spaces
IsPartition(s, out, cuts) ==
  LET starts == RunStartsAt(s, cuts)
      nth(k) == CHOOSE lo \in starts : Cardinality({x \in starts : x < lo}) = k - 1
  IN  /\ Len(out) = Cardinality(starts)
      /\ \A k \in 1..Len(out) :
           LET lo == nth(k)
               hi == RunEnd(s, cuts, lo)
           IN  /\ \A j \in lo..hi : s[j].speaker = out[k].speaker
               /\ out[k].text = JoinTexts(s, lo, hi)

CutSets(s) == SUBSET (1..(Len(s) - 1))

\* the output segments made of two or more input segments, under a cut set
MergedAt(s, cuts) ==
  LET starts == RunStartsAt(s, cuts)
  IN  {k \in 1..Cardinality(starts) :
         LET lo == CHOOSE l \in starts : Cardinality({x \in starts : x < l}) = k - 1
         IN  RunEnd(s, cuts, lo) > lo}

\* C21: every output segment of optimizeScript that was produced by merging
\* two or more input segments has a text, separating spaces included, of
\* strictly less than MAX_CHAR_LIMIT (800) characters.
C21_MergedUnderCap ==
  fnPc = "optimized" =>
    \A cuts \in CutSets(script) :
      IsPartition(script, optimized, cuts) =>
        \A k \in MergedAt(script, cuts) : Len(optimized[k].text) < MAX_CHAR_LIMIT

ExampleScript ==
  << [speaker |-> "A", text |-> <<"x">>], [speaker |-> "A", text |-> <<"y">>],
     [speaker |-> "B", text |-> <<"z">>] >>

\* C22: optimizeScript preserves order and content: the output is the input
\* cut into consecutive runs of one speaker, in input order, each output
\* segment having its run's speaker and the run's texts joined by single
\* spaces; an empty script gives an empty output, and
\* [{A,x},{A,y},{B,z}] gives [{A,"x y"},{B,z}].
C22_OrderAndContentKept ==
  fnPc = "optimized" =>
    /\ script = << >> => optimized = << >>
    /\ script # << >> => \E cuts \in CutSets(script) : IsPartition(script, optimized, cuts)
    /\ script = ExampleScript =>
         optimized = << [speaker |-> "A", text |-> <<"x", " ", "y">>],
                        [speaker |-> "B", text |-> <<"z">>] >>

\* the example script was optimized into two segments
C22_Witness ==
  /\ fnPc = "optimized"
  /\ script = ExampleScript
  /\ Len(optimized) = 2

(***************************************************************************)
(* The stages of the pipeline and what a run reports.                      *)
(***************************************************************************)
\* handleGenerate resumes after await processQueue() and comes to its end
RunEnds == pq = "returned" /\ pq' = "idle"

StageMove(from, to) == step = from /\ step' = to

\* C24 as amended: the stage changes only along input->analyzing,
\* analyzing->casting (the analysis was stored), analyzing->input (the
\* analysis failure was alerted), casting->generating, generating->complete
\* (a run ended with a slot filled), generating->casting (a run ended and
\* its failure was alerted) and complete->casting (the Adjust Voices
\* button, which starts nothing).
C24_StageTransitions ==
  [][step' # step =>
       \/ StageMove("input", "analyzing")
       \/ StageMove("analyzing", "casting") /\ analysis' # NoAnalysis
       \/ /\ StageMove("analyzing", "input")
          /\ alerted' = "Failed to analyze text. Please try again."
       \/ StageMove("casting", "generating")
       \/ StageMove("generating", "complete") /\ RunEnds /\ Filled # {}
       \/ /\ StageMove("generating", "casting")
          /\ RunEnds
          /\ alerted' = "Generation failed: No audio generated"
       \/ StageMove("complete", "casting") /\ UNCHANGED runVars]_vars

\* the stage is casting again after a completed run: the track of that run
\* is still there
C24_Witness ==
  /\ step = "casting"
  /\ pq = "idle"
  /\ finalBuffer # NullBuffer

\* C24 as stated: the stage changes only along input->analyzing,
\* analyzing->casting, analyzing->input, casting->generating,
\* generating->complete and generating->casting.
C24_OnlySixTransitions ==
  [][step' # step =>
       \/ StageMove("input", "analyzing")
       \/ StageMove("analyzing", "casting")
       \/ StageMove("analyzing", "input")
       \/ StageMove("casting", "generating")
       \/ StageMove("generating", "complete")
       \/ StageMove("generating", "casting")]_vars

\* an error occurs in this step: the analysis fails, a call is rate-limited,
\* a segment is dropped, or the run fails as a whole
ErrorOccurs ==
  \/ alerted' = "Failed to analyze text. Please try again."
  \/ RateLimitStep
  \/ (~RunStarts /\ dropped' # dropped)
  \/ alerted' = "Generation failed: No audio generated"

\* C25: every error that occurs during a run (an analysis failure, a
\* rate-limited attempt, a dropped segment, a generation failure of the
\* whole run) appends an entry with stage, severity and message to the
\* diagnostic log of the session.
C25_EveryErrorIsLogged ==
  [][ErrorOccurs =>
       {i \in DOMAIN logged' : logged'[i].level \in {"WARN", "ERROR"}} # {}]_vars

(***************************************************************************)
(* bufferToWav.  The DataView is the list of the header fields written,    *)
(* each with its byte offset and size, and the number of 16-bit samples    *)
(* written after them; offset and pos are the function's two cursors.      *)
(***************************************************************************)
MaxFrames == 12

\* the AudioBuffers given to the encoder: createBuffer refuses a length of 0
WavInputs ==
  { createBuffer(k, f, r, << >>) : k \in {1, 2}, f \in 1..MaxFrames,
                                    r \in {8000, 24000, 44100} }

\* view.setUint16(offset, data, true); offset += 2
setUint16(w, data) ==
  [w EXCEPT !.fields = Append(@, [at |-> w.offset, size |-> 2, value |-> data % 65536]),
            !.offset = @ + 2]

\* view.setUint32(offset, data, true); offset += 4 (every value written
\* here is far below 2^32, so none wraps)
setUint32(w, data) ==
  [w EXCEPT !.fields = Append(@, [at |-> w.offset, size |-> 4, value |-> data]),
            !.offset = @ + 4]

\* write WAVE header: the twelve fields up to "data", in order
writeHeader(w, buffer, length) ==
  LET numOfChan == buffer.numberOfChannels
      w1 == setUint32(w, 1179011410)
      w2 == setUint32(w1, length - 8)
      w3 == setUint32(w2, 1163280727)
      w4 == setUint32(w3, 544501094)
      w5 == setUint32(w4, 16)
      w6 == setUint16(w5, 1)
      w7 == setUint16(w6, numOfChan)
      w8 == setUint32(w7, buffer.sampleRate)
      w9 == setUint32(w8, buffer.sampleRate * 2 * numOfChan)
      w10 == setUint16(w9, numOfChan * 2)
      w11 == setUint16(w10, 16)
  IN  setUint32(w11, 1635017060)

\* setUint32(length - pos - 4): the argument
dataChunkLength(w, length) == length - w.pos - 4

\* write interleaved data: one 16-bit sample for each channel of each frame
RECURSIVE writeSamples(_, _)
writeSamples(w, buffer) ==
  IF w.pos < buffer.length
    THEN writeSamples([w EXCEPT !.samples = @ + buffer.numberOfChannels,
                                !.offset = @ + 2 * buffer.numberOfChannels,
                                !.pos = @ + 1], buffer)
    ELSE w

bufferToWav(buffer) ==
  LET numOfChan == buffer.numberOfChannels
      length == buffer.length * numOfChan * 2 + 44
      view == [offset |-> 0, pos |-> 0, fields |-> << >>, samples |-> 0]
      header == writeHeader(view, buffer, length)
      chunk == setUint32(header, dataChunkLength(header, length))
      done == writeSamples(chunk, buffer)
  IN  [byteLength |-> length, fields |-> done.fields, samples |-> done.samples]

\* the value of the header field written at a byte offset
fieldAt(blob, at) ==
  LET i == CHOOSE j \in DOMAIN blob.fields : blob.fields[j].at = at
  IN  blob.fields[i].value

\* decoding the container by its header: channel count and sample rate as
\* written, the data chunk of the written length as 16-bit samples, and
\* decodeAudioData's frameCount = dataInt16.length / numChannels
decodeWav(blob) ==
  LET numChannels == fieldAt(blob, 22)
      sampleRate == fieldAt(blob, 24)
      dataInt16Length == fieldAt(blob, 40) \div 2
      frameCount == dataInt16Length \div numChannels
  IN  createBuffer(numChannels, frameCount, sampleRate, << >>)

InitWav ==
  /\ InitPool({<< >>}, {0})
  /\ InitComponent
  /\ fnPc = "bufferToWav"
  /\ script = << >>
  /\ optimized = << >>
  /\ wavBuffer \in WavInputs
  /\ wav = Null
  /\ decoded = NullBuffer
  /\ chunks = << >>
  /\ joined = NullBuffer
  /\ voices = << >>
  /\ characters = << >>
  /\ assignments = << >>
  /\ scoredVoices = << >>
  /\ envString = << >>
  /\ jobVoices = << >>

\* const wavBlob = bufferToWav(finalBuffer)
Encode ==
  /\ fnPc = "bufferToWav"
  /\ wav' = bufferToWav(wavBuffer)
  /\ fnPc' = "encoded"
  /\ UNCHANGED <<kmVars, now, compVars, runVars, lastOp, ret, obsVars, poolCalls,
                 clicks, uiVars, envString, jobVoices, script, optimized, wavBuffer, decoded, chunks, joined,
                 voices, characters, assignments, scoredVoices>>

\* the container read back
Decode ==
  /\ fnPc = "encoded"
  /\ decoded' = decodeWav(wav)
  /\ fnPc' = "decoded"
  /\ UNCHANGED <<kmVars, now, compVars, runVars, lastOp, ret, obsVars, poolCalls,
                 clicks, uiVars, envString, jobVoices, script, optimized, wavBuffer, wav, chunks, joined,
                 voices, characters, assignments, scoredVoices>>

WavSpec ==
  /\ InitWav
  /\ [][Encode \/ Decode]_vars

\* C26: for a buffer of F frames, K channels and sample rate R the encoder
\* emits 44 + 2*F*K bytes, with RIFF chunk size 36 + 2*F*K, format tag 1,
\* channel count K, sample rate R, byte rate R*K*2, block align K*2, 16 bits
\* per sample and data length 2*F*K, the number of data bytes that follow.
C26_WavHeader ==
  fnPc \in {"encoded", "decoded"} =>
    LET F == wavBuffer.length
        K == wavBuffer.numberOfChannels
        R == wavBuffer.sampleRate
    IN  /\ wav.byteLength = 44 + 2 * F * K
        /\ 2 * wav.samples = 2 * F * K
        /\ fieldAt(wav, 4) = 36 + 2 * F * K
        /\ fieldAt(wav, 20) = 1
        /\ fieldAt(wav, 22) = K
        /\ fieldAt(wav, 24) = R
        /\ fieldAt(wav, 28) = R * K * 2
        /\ fieldAt(wav, 32) = K * 2
        /\ fieldAt(wav, 34) = 16
        /\ fieldAt(wav, 40) = 2 * F * K

\* C27: encoding a buffer and decoding the container back by its header
\* fields gives the same channel count, sample rate and sample count.
C27_WavRoundTrip ==
  fnPc = "decoded" =>
    /\ decoded.numberOfChannels = wavBuffer.numberOfChannels
    /\ decoded.sampleRate = wavBuffer.sampleRate
    /\ decoded.length = wavBuffer.length

(***************************************************************************)
(* concatenateAudioBuffers on its own, degenerate lists included.          *)
(***************************************************************************)
MaxChunks == 3

\* the lists tried; an entry is missing, a buffer without frames, a mono or
\* a stereo buffer
ChunkLists ==
  LET ChunkValues ==
        { NullBuffer,
          createBuffer(1, 0, SAMPLE_RATE, << >>),
          createBuffer(1, 2, SAMPLE_RATE, <<[kind |-> "segment", src |-> 0, frames |-> 2]>>),
          createBuffer(2, 3, 44100, <<[kind |-> "segment", src |-> 1, frames |-> 3]>>) }
  IN  UNION { [1..n -> ChunkValues] : n \in 0..MaxChunks }

InitConcat ==
  /\ InitPool({<< >>}, {0})
  /\ InitComponent
  /\ fnPc = "concatenateAudioBuffers"
  /\ script = << >>
  /\ optimized = << >>
  /\ wavBuffer = NullBuffer
  /\ wav = Null
  /\ decoded = NullBuffer
  /\ chunks \in ChunkLists
  /\ joined = NullBuffer
  /\ voices = << >>
  /\ characters = << >>
  /\ assignments = << >>
  /\ scoredVoices = << >>
  /\ envString = << >>
  /\ jobVoices = << >>

\* concatenateAudioBuffers(ctx, buffers)
Concatenate ==
  /\ fnPc = "concatenateAudioBuffers"
  /\ joined' = concatenateAudioBuffers(chunks)
  /\ fnPc' = "concatenated"
  /\ UNCHANGED <<kmVars, now, compVars, runVars, lastOp, ret, obsVars, poolCalls,
                 clicks, uiVars, envString, jobVoices, script, optimized, wavBuffer, wav, decoded, chunks,
                 voices, characters, assignments, scoredVoices>>

ConcatSpec ==
  /\ InitConcat
  /\ [][Concatenate]_vars

\* every entry of the list is missing or has no frames (the empty list too)
Degenerate(list) ==
  \A i \in DOMAIN list : list[i] = NullBuffer \/ list[i].length = 0

MaxCharacters == 2
RandomSteps == 10

\* String.prototype.toLowerCase
toLowerCase(str) ==
  LET lowerOf ==
        [A |-> "a", B |-> "b", C |-> "c", D |-> "d", E |-> "e", F |-> "f", G |-> "g", H |-> "h", I |-> "i", J |-> "j", K |-> "k", L |-> "l", M |-> "m",
         N |-> "n", O |-> "o", P |-> "p", Q |-> "q", R |-> "r", S |-> "s", T |-> "t", U |-> "u", V |-> "v", W |-> "w", X |-> "x", Y |-> "y", Z |-> "z"]
      \* a letter outside ASCII is written as its code point
      lowerOfAll == lowerOf @@ ("U+0420" :> "U+0440") @@ ("U+00C4" :> "U+00E4")
  IN  [i \in DOMAIN str |-> IF str[i] \in DOMAIN lowerOfAll THEN lowerOfAll[str[i]] ELSE str[i]]

\* String.prototype.includes
includes(str, sub) ==
  \E i \in 1..(Len(str) - Len(sub) + 1) : SubSeq(str, i, i + Len(sub) - 1) = sub

\* Array.prototype.includes
arrayIncludes(arr, item) == \E i \in DOMAIN arr : arr[i] = item

\* the catalogs of voices tried
Catalogs ==
  LET Puck ==
        [name |-> "Puck", gender |-> <<"M", "a", "l", "e">>, pitch |-> <<"H", "i", "g", "h">>,
        characteristics |-> <<<<"Y", "o", "u", "t", "h", "f", "u", "l">>>>]
      Kore ==
        [name |-> "Kore", gender |-> <<"F", "e", "m", "a", "l", "e">>, pitch |-> <<"L", "o", "w">>,
        characteristics |-> <<<<"M", "a", "t", "u", "r", "e">>>>]
      Charon ==
        [name |-> "Charon", gender |-> <<"M", "a", "l", "e">>, pitch |-> <<"L", "o", "w">>,
        characteristics |-> <<<<"D", "e", "e", "p">>>>]
      Zephyr ==
        [name |-> "Zephyr", gender |-> <<"F", "e", "m", "a", "l", "e">>, pitch |-> <<"M", "e", "d", "i", "u", "m", "-", "H", "i", "g", "h">>,
        characteristics |-> <<<<"B", "r", "i", "g", "h", "t">>, <<"Y", "o", "u", "t", "h", "f", "u", "l">>>>]
  IN  { <<Puck, Kore>>, <<Kore, Charon>>, <<Zephyr, Charon, Kore>>, <<Charon, Puck, Zephyr>> }

\* the characters of an analysis: the narrator or not, then up to
\* MaxCharacters speakers.  The empty gender stands also for a profile
\* without one: both make the code take 'unknown'
CharacterLists ==
  LET Genders ==
        { <<"M", "a", "l", "e">>, <<"F", "e", "m", "a", "l", "e">>, <<"U",
        "n", "k", "n", "o", "w", "n">>, <<"n", "/", "a">>, << >> }
      Descriptions ==
        { << >>, <<"A", "n", " ", "o", "l", "d", " ", "s", "a", "i", "l", "o",
        "r">>, <<"A", " ", "y", "o", "u", "n", "g", " ", "c", "h", "i", "l",
        "d">> }
      Profiles == [gender : Genders, description : Descriptions]
      CharacterNames == <<<<"A", "l", "i", "c", "e">>, <<"B", "o", "b">>, <<"C", "a", "r", "o", "l">>, <<"D", "a", "v", "e">>>>
      Narrators ==
        { << >>, <<[name |-> <<"N", "a", "r", "r", "a", "t", "o", "r">>, gender |-> <<"N", "e", "u", "t", "r",
        "a", "l">>, description |-> <<"S", "t", "o", "r", "y", " ", "n", "a",
        "r", "r", "a", "t", "o", "r">>]>> }
  IN  { n \o [i \in 1..Len(p) |-> [name |-> CharacterNames[i], gender |-> p[i].gender,
                                    description |-> p[i].description]] :
          n \in Narrators,
          p \in UNION { [1..k -> Profiles] : k \in 0..MaxCharacters } }

\* char.gender?.toLowerCase() || 'unknown'
charGenderOf(char) ==
  IF char.gender = << >> THEN <<"u", "n", "k", "n", "o", "w", "n">>
  ELSE toLowerCase(char.gender)

\* Gender Match
genderScore(char, voice) ==
  LET charGender == charGenderOf(char)
      voiceGender == toLowerCase(voice.gender)
  IN  IF charGender # <<"u", "n", "k", "n", "o", "w", "n">> /\ charGender # <<"n", "/", "a">>
        THEN IF includes(charGender, <<"f", "e", "m", "a", "l", "e">>) /\ voiceGender = <<"m", "a", "l", "e">>
               THEN -100
             ELSE IF includes(charGender, <<"m", "a", "l", "e">>) /\ voiceGender = <<"f", "e", "m", "a", "l", "e">>
               THEN -100
             ELSE IF charGender = voiceGender THEN 20
             ELSE 0
        ELSE 0

\* Description Match
descriptionScore(char, voice) ==
  LET desc == toLowerCase(char.description)
      traits == [i \in DOMAIN voice.characteristics |->
                   toLowerCase(voice.characteristics[i])]
      pitch == toLowerCase(voice.pitch)
  IN  IF includes(desc, <<"o", "l", "d">>) \/ includes(desc, <<"e", "l", "d", "e", "r", "l", "y">>)
        THEN IF arrayIncludes(traits, <<"m", "a", "t", "u", "r", "e">>) \/ arrayIncludes(traits, <<"d", "e", "e", "p">>)
               THEN 10 ELSE 0
      ELSE IF includes(desc, <<"y", "o", "u", "n", "g">>) \/ includes(desc, <<"c", "h", "i", "l", "d">>)
        THEN (IF arrayIncludes(traits, <<"y", "o", "u", "t", "h", "f", "u", "l">>) THEN 10 ELSE 0)
             + (IF includes(pitch, <<"h", "i", "g", "h">>) THEN 5 ELSE 0)
      ELSE 0

\* the score of a voice, in units of 1 / RandomSteps: random is the value of
\* Math.random() in those units, from 0 to RandomSteps - 1
scoreOf(char, voice, usedVoices, random) ==
  RandomSteps * (genderScore(char, voice) + descriptionScore(char, voice)
                   + (IF voice.name \in usedVoices THEN -5 ELSE 0))
    + random

\* voices.map(...): one scored entry for each voice
scoreVoices(char, usedVoices, randoms) ==
  [i \in DOMAIN voices |->
     [voice |-> voices[i].name,
      gender |-> genderScore(char, voices[i]),
      score |-> scoreOf(char, voices[i], usedVoices, randoms[i])]]

\* scoredVoices.sort((a, b) => b.score - a.score)[0]: the highest score, the
\* first of them in catalog order when several are equal
bestMatch(scored) ==
  CHOOSE i \in DOMAIN scored :
    \A j \in DOMAIN scored :
      scored[j].score < scored[i].score \/ (scored[j].score = scored[i].score /\ i <= j)

\* voices.find(v => v.name === 'Puck') || voices[0]
narratorVoice ==
  IF \E i \in DOMAIN voices : voices[i].name = "Puck" THEN "Puck" ELSE voices[1].name

\* analysisData.characters.forEach from character i on: cast is the record
\* of the assignments, the used voices and the scores so far
RECURSIVE castFrom(_, _, _, _)
castFrom(chars, i, cast, randoms) ==
  IF i > Len(chars) THEN cast
  ELSE IF chars[i].name = <<"N", "a", "r", "r", "a", "t", "o", "r">>
    THEN castFrom(chars, i + 1, [cast EXCEPT !.scored = Append(@, << >>)], randoms)
  ELSE LET scored == CHOOSE s \in {scoreVoices(chars[i], cast.used, randoms[i])} : TRUE
           best == CHOOSE name \in {scored[bestMatch(scored)].voice} : TRUE
           next == CHOOSE c \in {[assigned |-> (chars[i].name :> best) @@ cast.assigned,
                                  used |-> cast.used \cup {best},
                                  scored |-> Append(cast.scored, scored)]} : TRUE
       IN  castFrom(chars, i + 1, next, randoms)

\* performSmartCasting(analysisData), chars being analysisData.characters
performSmartCasting(chars, randoms) ==
  castFrom(chars, 1, [assigned |-> (<<"N", "a", "r", "r", "a", "t", "o", "r">> :> narratorVoice), used |-> {narratorVoice},
               scored |-> << >>], randoms)

InitCasting ==
  /\ InitPool({<< >>}, {0})
  /\ InitComponent
  /\ fnPc = "performSmartCasting"
  /\ script = << >>
  /\ optimized = << >>
  /\ wavBuffer = NullBuffer
  /\ wav = Null
  /\ decoded = NullBuffer
  /\ chunks = << >>
  /\ joined = NullBuffer
  /\ voices \in Catalogs
  /\ characters \in CharacterLists
  /\ assignments = << >>
  /\ scoredVoices = << >>
  /\ envString = << >>
  /\ jobVoices = << >>

\* performSmartCasting(result), with a value of Math.random() for each voice
\* and each character but the narrator: the least or the greatest
Cast ==
  /\ fnPc = "performSmartCasting"
  /\ \E randoms \in [{ i \in DOMAIN characters : characters[i].name # <<"N", "a", "r", "r", "a", "t", "o", "r">> } ->
                       [DOMAIN voices -> {0, RandomSteps - 1}]] :
       \E cast \in {performSmartCasting(characters, randoms)} :
         /\ assignments' = cast.assigned
         /\ scoredVoices' = cast.scored
  /\ fnPc' = "cast"
  /\ UNCHANGED <<kmVars, now, compVars, runVars, lastOp, ret, obsVars, poolCalls,
                 clicks, uiVars, envString, jobVoices, script, optimized, wavBuffer, wav, decoded, chunks,
                 joined, voices, characters>>

CastSpec ==
  /\ InitCasting
  /\ [][Cast]_vars

\* C29: a character whose gender is male or female is never given a voice
\* of the opposite gender when the catalog has a voice of the character's
\* gender, whatever the description, the voices already used and the
\* perturbation.
C29_NoGenderMismatch ==
  LET male == <<"m", "a", "l", "e">>
      female == <<"f", "e", "m", "a", "l", "e">>
      genderOfVoice(name) ==
        toLowerCase(voices[CHOOSE j \in DOMAIN voices : voices[j].name = name].gender)
      opposite(gender) == IF gender = male THEN female ELSE male
  IN  fnPc = "cast" =>
        \A i \in DOMAIN characters :
          LET gender == charGenderOf(characters[i])
          IN  ( /\ characters[i].name # <<"N", "a", "r", "r", "a", "t", "o", "r">>
                /\ gender \in {male, female}
                /\ \E v \in DOMAIN voices : toLowerCase(voices[v].gender) = gender )
                => genderOfVoice(assignments[characters[i].name]) # opposite(gender)

\* C30: the gender part of the score of a voice is -100 exactly when the
\* character is female and the voice male, or the character male and the
\* voice female; it is +20 when the two genders are equal, for male and for
\* female characters; it is 0 when the character's gender is unknown or n/a.
C30_GenderComponent ==
  fnPc = "cast" =>
    \A i \in DOMAIN characters :
      characters[i].name # <<"N", "a", "r", "r", "a", "t", "o", "r">> =>
        \A v \in DOMAIN voices :
          LET gender == charGenderOf(characters[i])
              voice == toLowerCase(voices[v].gender)
              part == scoredVoices[i][v].gender
          IN  /\ part = -100 <=>
                   \/ gender = <<"f", "e", "m", "a", "l", "e">> /\ voice = <<"m", "a", "l", "e">>
                   \/ gender = <<"m", "a", "l", "e">> /\ voice = <<"f", "e", "m", "a", "l", "e">>
              /\ (gender \in { <<"m", "a", "l", "e">>, <<"f", "e", "m", "a", "l", "e">> } /\ gender = voice) => part = 20
              /\ gender \in { <<"u", "n", "k", "n", "o", "w", "n">>, <<"n", "/", "a">> } => part = 0

(***************************************************************************)
(* The pool: counters, calls that return no key, getWorkingKey.            *)
(***************************************************************************)
\* C34: whatever calls of reserveKey, getWorkingKey, jailCurrentKey and
\* allKeysJailed are made and however time passes, every request counter is
\* between 0 and MAX_RPM; a key handed out by reserveKey has its counter of
\* the current window raised by one, so no key is handed out more than
\* MAX_RPM times between two window resets.
C34_CounterWithinWindowMax ==
  [][/\ \A k \in DOMAIN requestCounts : requestCounts[k] \in 0..MAX_RPM
     /\ \A k \in DOMAIN requestCounts' : requestCounts'[k] \in 0..MAX_RPM
     /\ (lastOp' = "reserveKey" /\ isKey(ret')) =>
          /\ CountInWindow(ret') < MAX_RPM
          /\ requestCounts'[ret'] = CountInWindow(ret') + 1]_vars

\* reserveKey has handed a key out for the MAX_RPM-th time of the window
C34_Witness ==
  /\ lastOp = "reserveKey"
  /\ isKey(ret)
  /\ requestCounts[ret] = MAX_RPM
  /\ poolCalls > 1

\* C35: a reserveKey call that returns no key leaves the pool as its window
\* reset, if one is due, makes it: the pointer, every counter and every jail
\* are otherwise the same after the call as before, on the empty pool too.
C35_NoneLeavesPoolUnchanged ==
  [][(lastOp' = "reserveKey" /\ ~isKey(ret')) => KMAfter = checkReset(KM)]_vars

\* C39 (as the code has it): on a non-empty pool getWorkingKey always
\* returns a key of the pool: what reserveKey returns, with the same effect
\* on the pool, when a key is usable; otherwise the key at the pointer,
\* jailed or at the limit, and then the pool is changed by nothing but the
\* window reset of the call, if one is due.
C39_GetWorkingKeyBestEffort ==
  [][(lastOp' = "getWorkingKey" /\ Len(keys) > 0) =>
       /\ ret' \in PoolKeys
       /\ IF UsableOffsets # {}
            THEN /\ ret' = reserveKey(KM).key
                 /\ KMAfter = reserveKey(KM).km
                 /\ requestCounts'[ret'] = CountInWindow(ret') + 1
            ELSE /\ ret' = keys[currentIndex + 1]
                 /\ KMAfter = checkReset(KM)]_vars

\* getWorkingKey has returned the pointer's key, jailed, in a call that
\* reset the window
C39_Witness ==
  /\ lastOp = "getWorkingKey"
  /\ Len(keys) > 0
  /\ ret = keys[currentIndex + 1]
  /\ ret \in DOMAIN jailedUntil
  /\ jailedUntil[ret] > now
  /\ now > 0
  /\ lastResetTime = now
  /\ requestCounts[ret] = 0

\* C39 (as stated): the same, the fallback changing no counter, no jail and
\* not the pointer.
C39_FallbackChangesNothing ==
  [][(lastOp' = "getWorkingKey" /\ Len(keys) > 0) =>
       /\ ret' \in PoolKeys
       /\ IF UsableOffsets # {}
            THEN /\ ret' = reserveKey(KM).key
                 /\ KMAfter = reserveKey(KM).km
                 /\ requestCounts'[ret'] = CountInWindow(ret') + 1
            ELSE /\ ret' = keys[currentIndex + 1]
                 /\ requestCounts' = requestCounts
                 /\ jailedUntil' = jailedUntil
                 /\ currentIndex' = currentIndex]_vars

\* C38: optimizeScript does not change the script it is given, and applied
\* to its own result it returns that result: after the first call the
\* script is what it was, and after a second call, on the result of the
\* first, the result and the argument are equal.
C38_IdempotentAndPure ==
  [][/\ fnPc' = "optimized" => script' = script
     /\ fnPc' = "optimizedAgain" => (script' = optimized /\ optimized' = optimized)]_vars

\* the second call was given two segments of one speaker that the first
\* call had left apart, one of them merged by the first call
C38_Witness ==
  /\ fnPc = "optimizedAgain"
  /\ Len(optimized) = 2
  /\ optimized[1].speaker = optimized[2].speaker
  /\ \E i \in 1..2 : \E j \in DOMAIN optimized[i].text : optimized[i].text[j] = " "

(***************************************************************************)
(* The progress a run reports, for scripts of many segments: the success   *)
(* path of processItem for one job after the other.                        *)
(***************************************************************************)
MaxSegments == 201

\* a run under way on a script of 1, 2, 3, MaxSegments - 1 or MaxSegments
\* optimized segments, nothing completed yet
InitProgress ==
  /\ InitPool({<<"k1">>}, {0})
  /\ InitHelpers
  /\ isMounted = TRUE
  /\ step = "generating"
  /\ progress = 0
  /\ \E n \in {1, 2, 3, MaxSegments - 1, MaxSegments} :
       /\ analysis = [script |-> n]
       /\ orderedBuffers = emptyBuffers(n)
       /\ attemptCount = [i \in 1..n |-> 0]
  /\ audioContext = "open"
  /\ pq = "delay200"
  /\ queue = << >>
  /\ activeWorkers = 0
  /\ MAX_CONCURRENCY = maxConcurrency(activeKeyCount)
  /\ completedCount = 0
  /\ calls = {}
  /\ pendingFinally = 0
  /\ skipped = {}
  /\ finalBuffer = NullBuffer
  /\ dropped = {}
  /\ outOfOrder = FALSE
  /\ rateLimitHits = 0
  /\ logged = << >>
  /\ alerted = Null

\* orderedBuffers[index] = combined; completedCount++; setProgress(...) for
\* the job of the next index
ReportProgress ==
  /\ completedCount < Len(orderedBuffers)
  /\ LET index == completedCount
         buffer == decodeAudioData(index, frameCountOf(index))
         combined == concatenateAudioBuffers(<<buffer, pauseBuffer>>)
     IN  orderedBuffers' = storeBuffer(orderedBuffers, index, combined)
  /\ completedCount' = completedCount + 1
  /\ progress' = setState(progress, percent(completedCount + 1, Len(orderedBuffers)))
  /\ UNCHANGED <<fnVars, kmVars, now, isMounted, step, analysis, audioContext, pq, queue,
                 activeWorkers, MAX_CONCURRENCY, calls, pendingFinally, skipped,
                 finalBuffer, lastOp, ret, obsVars, poolCalls, clicks, uiVars>>

ProgressSpec == InitProgress /\ [][ReportProgress]_vars

\* C36: the completion counter is the number of filled slots and at most
\* the number of optimized segments; the progress reported is between 0 and
\* 100, never goes down during a run, and is 100 only when every slot is
\* filled.
C36_ProgressReport ==
  [][/\ completedCount' = Cardinality({i \in DOMAIN orderedBuffers' : isFilled(orderedBuffers'[i])})
     /\ completedCount' <= Len(orderedBuffers')
     /\ progress' \in 0..100
     /\ pq # "idle" => progress' >= progress
     /\ progress' = 100 => completedCount' = Len(orderedBuffers')]_vars

\* C37: once the component is unmounted no synthesis call is started: a job
\* taken from the queue after that is given to a processItem that returns
\* before its call; and the run neither sets the stage (to complete or to
\* anything else) nor produces a final track.
C37_NoWorkAfterUnmount ==
  [][(~isMounted /\ ~(UNCHANGED <<calls, queue, step, finalBuffer>>)) =>
       /\ calls' \subseteq calls
       /\ (Len(queue') < Len(queue)) =>
            /\ Head(queue) \in skipped'
            /\ pendingFinally' = pendingFinally + 1
       /\ step' = step
       /\ finalBuffer' \in {finalBuffer, NullBuffer}]_vars

\* a job was taken from the queue after the unmount, with another job's
\* call still in flight
C37_Witness ==
  /\ ~isMounted
  /\ skipped # {}
  /\ calls # {}

(***************************************************************************)
(* The constructor of KeyManager.  The configuration is the sequence of    *)
(* its characters; here a key of the pool is the sequence of its           *)
(* characters too.                                                         *)
(***************************************************************************)
MaxTokens == 2

\* KeyManager.FALLBACK_KEYS: two keys of 39 characters, with a comma between
FALLBACK_KEYS == Repeat("F", 39) \o <<",">> \o Repeat("G", 39)

\* !rawKeys || rawKeys === 'API_KEY' || rawKeys.includes('undefined'); a
\* configuration that is not set counts as the empty one
usesFallback(rawKeys) ==
  \/ rawKeys = << >>
  \/ rawKeys = <<"A", "P", "I", "_", "K", "E", "Y">>
  \/ includes(rawKeys, <<"u", "n", "d", "e", "f", "i", "n", "e", "d">>)

\* rawKeys.split(',').map(k => k.trim()).map(k => k.replace(/['"]/g, ''))
cleanTokens(rawKeys) ==
  LET RECURSIVE split(_, _)
      \* the fields of str from position i on, cur being the field begun
      split(i, cur) ==
        IF i > Len(rawKeys) THEN <<cur>>
        ELSE IF rawKeys[i] = "," THEN <<cur>> \o split(i + 1, << >>)
        ELSE split(i + 1, Append(cur, rawKeys[i]))
      RECURSIVE trim(_)
      trim(k) ==
        IF k = << >> THEN k
        ELSE IF Head(k) = " " THEN trim(Tail(k))
        ELSE IF k[Len(k)] = " " THEN trim(SubSeq(k, 1, Len(k) - 1))
        ELSE k
      isNoQuote(c) == c \notin {"'", "\""}
      fields == split(1, << >>)
  IN  [i \in DOMAIN fields |-> SelectSeq(trim(fields[i]), isNoQuote)]

\* k.length > 10
isLongEnough(k) == Len(k) > 10

\* the keys the constructor keeps
constructorKeys(env) ==
  SelectSeq(cleanTokens(IF usesFallback(env) THEN FALLBACK_KEYS ELSE env),
            isLongEnough)

\* the configurations tried: up to MaxTokens tokens with commas between, a
\* token being a key of 11 or 12 characters, bare, quoted or padded, a
\* string of 10 characters, a short one, an empty one, the words undefined
\* and API_KEY
Configs ==
  LET Tokens ==
        { Repeat("a", 11), Repeat("b", 12), Repeat("c", 10), <<"d">>, << >>,
          <<"\"">> \o Repeat("a", 11) \o <<"\"">>,
          <<" ">> \o Repeat("b", 12) \o <<" ">>,
          <<"'">> \o Repeat("c", 9) \o <<"'">>,
          <<"u", "n", "d", "e", "f", "i", "n", "e", "d">>, <<"A", "P", "I", "_", "K", "E", "Y">> }
      RECURSIVE join(_)
      join(tokens) ==
        IF Len(tokens) = 0 THEN << >>
        ELSE IF Len(tokens) = 1 THEN tokens[1]
        ELSE tokens[1] \o <<",">> \o join(Tail(tokens))
  IN  { join(tokens) : tokens \in UNION { [1..n -> Tokens] : n \in 0..MaxTokens } }

InitConfig ==
  /\ keys = << >>
  /\ now = 0
  /\ currentIndex = 0
  /\ jailedUntil = << >>
  /\ requestCounts = << >>
  /\ lastResetTime = 0
  /\ lastOp = "none"
  /\ ret = Null
  /\ poolCalls = 0
  /\ clicks = 0
  /\ InitComponent
  /\ fnPc = "KeyManager"
  /\ envString \in Configs
  /\ jobVoices = << >>
  /\ script = << >>
  /\ optimized = << >>
  /\ wavBuffer = NullBuffer
  /\ wav = Null
  /\ decoded = NullBuffer
  /\ chunks = << >>
  /\ joined = NullBuffer
  /\ voices = << >>
  /\ characters = << >>
  /\ assignments = << >>
  /\ scoredVoices = << >>

\* new KeyManager(process.env.API_KEY)
Construct ==
  /\ fnPc = "KeyManager"
  /\ keys' = constructorKeys(envString)
  /\ requestCounts' = [k \in {keys'[i] : i \in DOMAIN keys'} |-> 0]
  /\ lastResetTime' = now
  /\ lastOp' = "new"
  /\ fnPc' = "constructed"
  /\ UNCHANGED <<currentIndex, jailedUntil, now, compVars, runVars, ret, obsVars,
                 poolCalls, clicks, uiVars, envString, jobVoices, script, optimized,
                 wavBuffer, wav, decoded, chunks, joined, voices, characters,
                 assignments, scoredVoices>>

ConfigSpec == InitConfig /\ [][Construct]_vars

\* C33: the pool built from a configuration holds, in the configuration's
\* order, the cleaned tokens that are longer than 10 characters, and no
\* other; when the configuration is empty or invalid, or none of its tokens
\* is long enough, the pool holds the built-in keys instead, so that it is
\* never empty; and its keys do not change after construction.
C33_PoolNeverEmpty ==
  [][/\ fnPc' = "constructed" =>
          LET long == SelectSeq(cleanTokens(envString), isLongEnough)
          IN  /\ \A i \in DOMAIN keys' : Len(keys'[i]) > 10
              /\ keys' # << >>
              /\ keys' = IF usesFallback(envString) \/ long = << >>
                           THEN cleanTokens(FALLBACK_KEYS)
                           ELSE long
     /\ fnPc = "constructed" => keys' = keys]_vars

(***************************************************************************)
(* handleAnalyze after the provider has answered: the post-processing of   *)
(* the response, the casting, and the voice processItem takes for each     *)
(* job.  A name is the sequence of its characters.                         *)
(***************************************************************************)
MaxLines == 2

\* the responses tried: a script of up to MaxLines lines, spoken by the
\* narrator under three of its names or by Alice or Bob, and a list of up
\* to MaxCharacters characters out of the narrator and Alice, who are
\* removed when they have no line.  The empty list stands also for a
\* response without characters
ProviderResponses ==
  LET Speakers == { <<"N", "a", "r", "r", "a", "t", "o", "r">>, <<"N", "A", "R", "R", "A", "D", "O", "R">>, <<"U+0420", "U+0430", "U+0441", "U+0441", "U+043A", "U+0430", "U+0437", "U+0447", "U+0438", "U+043A">>,
                    <<"A", "l", "i", "c", "e">>, <<"B", "o", "b">> }
      Listed ==
        { [name |-> <<"N", "a", "r", "r", "a", "t", "o", "r">>, gender |-> <<"N", "e", "u", "t", "r", "a", "l">>, description |-> << >>],
          [name |-> <<"A", "l", "i", "c", "e">>, gender |-> <<"F", "e", "m", "a", "l", "e">>, description |-> << >>] }
  IN  [characters : UNION { [1..n -> Listed] : n \in 0..MaxCharacters },
       script : UNION { [1..n -> [speaker : Speakers, text : {<<"x">>}]] : n \in 0..MaxLines }]

\* mutant: a speaker missing from the list gets no profile
synthesizedNone(speaker) == << >>

\* characters.push({ name: speaker, gender: 'Neutral', description:
\* 'Identified speaker' })
synthesized(speaker) ==
  <<[name |-> speaker, gender |-> <<"N", "e", "u", "t", "r", "a", "l">>,
     description |-> <<"I", "d", "e", "n", "t", "i", "f", "i", "e", "d", " ", "s", "p", "e", "a", "k", "e", "r">>]>>

\* the post-processing of the parsed response
postProcess(result) ==
  LET NARRATOR_ALIASES ==
        <<<<"n", "a", "r", "r", "a", "t", "o", "r">>,
          <<"U+0440", "U+0430", "U+0441", "U+0441", "U+043A", "U+0430", "U+0437", "U+0447", "U+0438", "U+043A">>,
          <<"n", "a", "r", "r", "a", "t", "e", "u", "r">>,
          <<"e", "r", "z", "U+00E4", "h", "l", "e", "r">>,
          <<"n", "a", "r", "r", "a", "d", "o", "r">>>>
      \* 1. Normalize Speakers in Script
      normalized ==
        [i \in DOMAIN result.script |->
           IF arrayIncludes(NARRATOR_ALIASES, toLowerCase(result.script[i].speaker))
             THEN [result.script[i] EXCEPT !.speaker = <<"N", "a", "r", "r", "a", "t", "o", "r">>]
             ELSE result.script[i]]
      \* 2. new Set(result.script.map(s => s.speaker)), in insertion order
      RECURSIVE setFrom(_, _)
      setFrom(i, set) ==
        IF i > Len(normalized) THEN set
        ELSE IF arrayIncludes(set, normalized[i].speaker) THEN setFrom(i + 1, set)
        ELSE setFrom(i + 1, Append(set, normalized[i].speaker))
      activeSpeakers == setFrom(1, << >>)
      \* 3. Filter characters
      isActive(c) ==
        IF c.name = <<"N", "a", "r", "r", "a", "t", "o", "r">> THEN arrayIncludes(activeSpeakers, <<"N", "a", "r", "r", "a", "t", "o", "r">>)
        ELSE arrayIncludes(activeSpeakers, c.name)
      filtered == SelectSeq(result.characters, isActive)
      find(chars, name) == \E i \in DOMAIN chars : chars[i].name = name
      \* 4. activeSpeakers.forEach from speaker i on
      RECURSIVE addMissing(_, _)
      addMissing(i, chars) ==
        IF i > Len(activeSpeakers) THEN chars
        ELSE IF find(chars, activeSpeakers[i]) THEN addMissing(i + 1, chars)
        ELSE addMissing(i + 1, chars \o synthesized(activeSpeakers[i]))
      added == addMissing(1, filtered)
      \* Ensure Narrator is first if present
      characters5 ==
        IF arrayIncludes(activeSpeakers, <<"N", "a", "r", "r", "a", "t", "o", "r">>) /\ ~find(added, <<"N", "a", "r", "r", "a", "t", "o", "r">>)
          THEN <<[name |-> <<"N", "a", "r", "r", "a", "t", "o", "r">>, gender |-> <<"N", "e", "u", "t", "r", "a", "l">>,
                  description |-> <<"S", "t", "o", "r", "y", " ", "n", "a", "r", "r", "a", "t", "o", "r">>]>> \o added
          ELSE added
  IN  [characters |-> characters5, script |-> normalized]

InitAnalysis ==
  /\ InitPool({<< >>}, {0})
  /\ InitComponent
  /\ fnPc = "handleAnalyze"
  /\ \E result \in ProviderResponses :
       /\ script = result.script
       /\ characters = result.characters
  /\ voices \in { catalog \in Catalogs : Len(catalog) = 2 }
  /\ optimized = << >>
  /\ wavBuffer = NullBuffer
  /\ wav = Null
  /\ decoded = NullBuffer
  /\ chunks = << >>
  /\ joined = NullBuffer
  /\ assignments = << >>
  /\ scoredVoices = << >>
  /\ envString = << >>
  /\ jobVoices = << >>

\* handleAnalyze from the parsed response on: script and characters hold the
\* response before the step and the analysis after it; performSmartCasting
\* casts the characters of the analysis
AnalyzeResult ==
  /\ fnPc = "handleAnalyze"
  /\ \E result \in {postProcess([characters |-> characters, script |-> script])} :
       /\ script' = result.script
       /\ characters' = result.characters
  /\ voices' = voices
  /\ \E randoms \in [{ i \in DOMAIN characters' : characters'[i].name # <<"N", "a", "r", "r", "a", "t", "o", "r">> } ->
                       [DOMAIN voices -> {0, RandomSteps - 1}]] :
       \E cast \in {performSmartCasting(characters', randoms)} :
         /\ assignments' = cast.assigned
         /\ scoredVoices' = cast.scored
  /\ fnPc' = "casting"
  /\ UNCHANGED <<kmVars, now, compVars, runVars, lastOp, ret, obsVars, poolCalls,
                 clicks, uiVars, envString, jobVoices, optimized, wavBuffer, wav,
                 decoded, chunks, joined>>

\* the voice selector of a character:
\* setAssignments({ ...assignments, [char.name]: e.target.value })
ChangeVoice ==
  /\ fnPc = "casting"
  /\ \E i \in DOMAIN characters, v \in DOMAIN voices :
       assignments' = (characters[i].name :> voices[v].name) @@ assignments
  /\ UNCHANGED <<kmVars, now, compVars, runVars, lastOp, ret, obsVars, poolCalls,
                 clicks, uiVars, envString, jobVoices, fnPc, script, optimized,
                 wavBuffer, wav, decoded, chunks, joined, voices, characters,
                 scoredVoices>>

\* mutant: every job is read by the narrator's voice
assignedVoiceNarrator(segment) == assignments[<<"N", "a", "r", "r", "a", "t", "o", "r">>]

\* assignments[segment.speaker] || assignments['Narrator'] || voices[0].name
assignedVoice(segment) ==
  IF segment.speaker \in DOMAIN assignments THEN assignments[segment.speaker]
  ELSE IF <<"N", "a", "r", "r", "a", "t", "o", "r">> \in DOMAIN assignments THEN assignments[<<"N", "a", "r", "r", "a", "t", "o", "r">>]
  ELSE voices[1].name

\* handleGenerate: the jobs are the segments of the optimized script, and
\* processItem takes the voice of each
AssignVoices ==
  /\ fnPc = "casting"
  /\ optimized' = optimizeScript(script)
  /\ jobVoices' = [i \in DOMAIN optimized' |-> assignedVoice(optimized'[i])]
  /\ fnPc' = "generating"
  /\ UNCHANGED <<kmVars, now, compVars, runVars, lastOp, ret, obsVars, poolCalls,
                 clicks, uiVars, envString, script, wavBuffer, wav, decoded,
                 chunks, joined, voices, characters, assignments, scoredVoices>>

AnalysisSpec == InitAnalysis /\ [][AnalyzeResult \/ ChangeVoice \/ AssignVoices]_vars

\* C32: after the post-processing of any response, no line of the script is
\* spoken under a narrator alias other than Narrator, the lines are
\* otherwise those of the response, the names of the characters are exactly
\* the speakers of the script, a listed character that speaks keeps its
\* profile, and Narrator is a character whenever it is a speaker.
C32_PostProcessing ==
  [][(fnPc = "handleAnalyze" /\ fnPc' = "casting") =>
       LET aliases == {<<"n", "a", "r", "r", "a", "t", "o", "r">>,
                       <<"U+0440", "U+0430", "U+0441", "U+0441", "U+043A", "U+0430", "U+0437", "U+0447", "U+0438", "U+043A">>,
                       <<"n", "a", "r", "r", "a", "t", "e", "u", "r">>,
                       <<"e", "r", "z", "U+00E4", "h", "l", "e", "r">>,
                       <<"n", "a", "r", "r", "a", "d", "o", "r">>}
           speakers == { script'[i].speaker : i \in DOMAIN script' }
           names == { characters'[i].name : i \in DOMAIN characters' }
       IN  /\ DOMAIN script' = DOMAIN script
           /\ \A i \in DOMAIN script :
                /\ script'[i].text = script[i].text
                /\ toLowerCase(script'[i].speaker) \in aliases => script'[i].speaker = <<"N", "a", "r", "r", "a", "t", "o", "r">>
                /\ script'[i].speaker # script[i].speaker =>
                     /\ toLowerCase(script[i].speaker) \in aliases
                     /\ script'[i].speaker = <<"N", "a", "r", "r", "a", "t", "o", "r">>
           /\ names = speakers
           /\ \A i \in DOMAIN characters :
                characters[i].name \in speakers => arrayIncludes(characters', characters[i])
           /\ <<"N", "a", "r", "r", "a", "t", "o", "r">> \in speakers => <<"N", "a", "r", "r", "a", "t", "o", "r">> \in names]_vars

\* an analysis of two speakers: the narrator, who was not listed and got a
\* synthesized profile, and a listed character that kept its own
C32_Witness ==
  /\ fnPc = "casting"
  /\ Len(characters) = 2
  /\ \E i, j \in DOMAIN characters :
       /\ characters[i].name = <<"N", "a", "r", "r", "a", "t", "o", "r">>
       /\ characters[i].description = <<"I", "d", "e", "n", "t", "i", "f", "i", "e", "d", " ", "s", "p", "e", "a", "k", "e", "r">>
       /\ characters[j].name = <<"A", "l", "i", "c", "e">>
       /\ characters[j].gender = <<"F", "e", "m", "a", "l", "e">>
  /\ \E i \in DOMAIN script : script[i].speaker = <<"N", "a", "r", "r", "a", "t", "o", "r">>

\* C31: with a catalog that is not empty, after the post-processing and the
\* casting every speaker of the script has an entry in the assignments and
\* every entry is a voice of the catalog, also after the user has changed
\* voices; the casting gives Narrator the voice Puck when the catalog has it
\* and the first voice of the catalog otherwise; and every job gets the
\* voice assigned to its own speaker.
C31_EverySpeakerHasItsVoice ==
  [][(~(UNCHANGED <<fnPc, assignments>>)) =>
       LET catalog == { voices'[v].name : v \in DOMAIN voices' }
       IN  /\ \A i \in DOMAIN script' :
                /\ script'[i].speaker \in DOMAIN assignments'
                /\ assignments'[script'[i].speaker] \in catalog
           /\ \A name \in DOMAIN assignments' : assignments'[name] \in catalog
           /\ fnPc = "handleAnalyze" =>
                assignments'[<<"N", "a", "r", "r", "a", "t", "o", "r">>] = IF "Puck" \in catalog THEN "Puck" ELSE voices'[1].name
           /\ fnPc' = "generating" =>
                /\ Len(jobVoices') = Len(optimizeScript(script'))
                /\ \A i \in DOMAIN jobVoices' :
                     jobVoices'[i] = assignments'[optimizeScript(script')[i].speaker]]_vars

\* two jobs of different speakers, one of them the narrator, synthesized
\* with different voices
C31_Witness ==
  /\ fnPc = "generating"
  /\ Len(jobVoices) = 2
  /\ jobVoices[1] # jobVoices[2]
  /\ \E i \in DOMAIN optimized : optimized[i].speaker = <<"N", "a", "r", "r", "a", "t", "o", "r">>
  /\ \A i \in DOMAIN jobVoices : jobVoices[i] = assignments[optimized[i].speaker]

====
